---- MODULE Spec2Model ----
(***************************************************************************)
(* Model of the thermal-wire control scripts.                              *)
(*                                                                         *)
(* The repository holds five near-identical control scripts; `variant`     *)
(* says which one runs:                                                    *)
(*   "manual"   src/PWM_CTE.py 1-218     manual PWM, background OCR worker *)
(*   "bounded"  src/PWM_CTE.py 221-413   preheat, PID for PID_DURATION     *)
(*   "threaded" src/PWM_CTE.py 416-659   preheat + PID, background reader  *)
(*   "test"     src/PWM_CTE.py 662-851   preheat + PID, synchronous reads  *)
(*   "loop2"    src/T_control_loop_2.py  preheat + PID, synchronous reads  *)
(*                                                                         *)
(* Numbers.  Temperatures, setpoints, errors and the PID integral are      *)
(* fixed-point integers in units of 1/Scale degree; time is in whole       *)
(* seconds; gains are in hundredths.  A Python value that may be None is   *)
(* <<>> (None) or <<v>>.  One control-loop iteration is one action; an     *)
(* iteration whose ser.write raises executes the statements before the     *)
(* write and then takes the handler the script has at that place; a        *)
(* KeyboardInterrupt is delivered between two iterations, in time.sleep,   *)
(* where the main thread spends its time.                                  *)
(***************************************************************************)
EXTENDS Integers, Sequences, FiniteSets, TLC

\* ------------------------------------------------------------------ values

Scale == 10 * 100
Deg(d) == d * Scale

None == <<>>
Some(v) == <<v>>
Val(o) == o[1]

\* Python truthiness of a float-or-None (`if self._last_time`)
Truthy(o) == o # None /\ Val(o) # 0

Abs(x) == IF x < 0 THEN 0 - x ELSE x
Max(a, b) == IF a >= b THEN a ELSE b
Min(a, b) == IF a <= b THEN a ELSE b
Last(s) == s[Len(s)]

\* f"{x:.4f}": four decimals are finer than 1/Scale, the value is kept
Fmt4(x) == x

\* f"{x:.2f}": rounded to the nearest hundredth of a degree, ties to even
Fmt2(x) ==
    LET step == Scale \div 100
        q == x \div step
        r == x % step
    IN  IF 2 * r < step THEN q * step
        ELSE IF 2 * r > step THEN (q + 1) * step
        ELSE IF q % 2 = 0 THEN q * step ELSE (q + 1) * step

\* ------------------------------------------------------------------ bounds

\* control-loop iterations explored beyond the length of the sensor script
ExtraTicks == 1
\* time.time() when the script starts
Clock0 == 1
\* texts the operator submits in one run
MaxSubmits == 1
\* PID.update calls made on one PID object when the PID is taken alone
MaxPidSteps == 3

\* ------------------------------------------------------- program constants

Variants == {"manual", "bounded", "threaded", "test", "loop2"}
HasSampler(v) == v \in {"manual", "threaded"}
HasFilter(v) == v # "bounded"
HasPreheat(v) == v # "manual"

PWM_PREHEAT == 255
PWM0 == 0
THRESHOLD_C == 300
PID_DURATION == 30
FLUSH_PERIOD == 1
SETPOINT == 280
SETPOINT0 == 200

\* Every script with the target of the test script
PREHEAT_TARGET_170(v) ==
    CASE v = "bounded" -> Deg(SETPOINT)
      [] OTHER -> Deg(170)

PREHEAT_TARGET(v) ==
    CASE v = "threaded" -> Deg(150)
      [] v = "bounded" -> Deg(SETPOINT)
      [] OTHER -> Deg(170)

InitialSetpoint(v) == IF v = "bounded" THEN Deg(SETPOINT) ELSE Deg(SETPOINT0)

\* OutlierFilter(max_delta=...) as each script constructs it
FilterMaxDelta(v) == IF v = "manual" THEN Deg(70) ELSE Deg(80)

\* gains in hundredths: kp, ki, kd
Kp(v) == IF v = "test" THEN 150 ELSE 75
Ki(v) == IF v = "test" THEN 180 ELSE 78
Kd(v) == 0
\* the derivative gain the scripts keep in a comment (0.13), in hundredths
KD_ALT == 13
OutputLimits == [lo |-> 0, hi |-> 255]

\* ------------------------------------------------------------ pure functions

\* A filter that moves its baseline by max_delta toward a rejected value
OutlierFilterUpdate_slew(prev, max_delta, v) ==
    IF prev # None /\ Abs(v - Val(prev)) > max_delta
    THEN [ret |-> Val(prev),
          prev |-> Some(IF v > Val(prev) THEN Val(prev) + max_delta
                        ELSE Val(prev) - max_delta)]
    ELSE [ret |-> v, prev |-> Some(v)]

\* A filter that remembers the value it rejects
OutlierFilterUpdate_remember(prev, max_delta, v) ==
    IF prev # None /\ Abs(v - Val(prev)) > max_delta
    THEN [ret |-> Val(prev), prev |-> Some(v)]
    ELSE [ret |-> v, prev |-> Some(v)]

\* A filter that lets a rejected value through while keeping its baseline
OutlierFilterUpdate_pass(prev, max_delta, v) ==
    IF prev # None /\ Abs(v - Val(prev)) > max_delta
    THEN [ret |-> v, prev |-> prev]
    ELSE [ret |-> v, prev |-> Some(v)]

\* OutlierFilter.update(v) on a filter whose fields are prev, max_delta:
\* the value returned and the new prev
OutlierFilterUpdate(prev, max_delta, v) ==
    IF prev # None /\ Abs(v - Val(prev)) > max_delta
    THEN [ret |-> Val(prev), prev |-> prev]
    ELSE [ret |-> v, prev |-> Some(v)]

\* clamp_uint8(v) of a value in 1/Scale units: int() truncates toward zero
TruncInt(x) == IF x >= 0 THEN x \div Scale ELSE 0 - ((0 - x) \div Scale)

\* A conversion to int that does not clamp
clamp_uint8_open(v) == TruncInt(v)

clamp_uint8(v) == Max(0, Min(255, TruncInt(v)))

\* A first call that takes one second as its dt
PidDt_one(p, now) == IF Truthy(p.last_time) THEN now - Val(p.last_time) ELSE 1

\* dt = now - self._last_time if self._last_time else 0.0
PidDt(p, now) == IF Truthy(p.last_time) THEN now - Val(p.last_time) ELSE 0

\* An integral kept within 100 degree-seconds (an anti-windup limit)
PidIntegral_limited(p, e, dt) ==
    Max(0 - Deg(100), Min(Deg(100), p.integral + e * dt))

\* An integral that counts every sample as one second
PidIntegral_sample(p, e, dt) == p.integral + e

\* self._integral += e*dt
PidIntegral(p, e, dt) == p.integral + e * dt

\* An output that is not limited
PidClamp_none(out100) == out100

\* out = max(lo, min(hi, out)), on a value in hundredths of 1/Scale
PidClamp(out100) ==
    Max(OutputLimits.lo * 100 * Scale,
        Min(OutputLimits.hi * 100 * Scale, out100))

\* int(out) of a value in hundredths of 1/Scale: truncation toward zero
TruncInt100(x) ==
    IF x >= 0 THEN x \div (100 * Scale) ELSE 0 - ((0 - x) \div (100 * Scale))

\* PID.update(pv) at time `now` on the state p = [setpoint, integral,
\* last_error, last_time] with gains kp, ki, kd (hundredths):
\* the duty returned, the error returned and the new state.
\* The derivative quotient is truncated; every script has kd = 0.
PIDUpdate(p, kp, ki, kd, pv, now) ==
    LET e == p.setpoint - pv
        dt == PidDt(p, now)
        d == IF Truthy(p.last_time) /\ dt > 0
             THEN (e - p.last_error) \div dt ELSE 0
        integral == PidIntegral(p, e, dt)
        out100 == kp * e + ki * integral + kd * d
        clamped == PidClamp(out100)
    IN  [out |-> TruncInt100(clamped),
         e |-> e,
         d |-> d,
         pid |-> [setpoint |-> p.setpoint, integral |-> integral,
                  last_error |-> e, last_time |-> Some(now)]]

\* float(text) for texts of the form [sign] digits [. digits]: <<>> stands
\* for ValueError; digits after the third decimal are dropped
IsDigit(c) == c \in {"0", "1", "2", "3", "4", "5", "6", "7", "8", "9"}
DigitVal(c) ==
    CASE c = "0" -> 0 [] c = "1" -> 1 [] c = "2" -> 2 [] c = "3" -> 3
      [] c = "4" -> 4 [] c = "5" -> 5 [] c = "6" -> 6 [] c = "7" -> 7
      [] c = "8" -> 8 [] OTHER -> 9
RECURSIVE IntVal(_)
IntVal(ds) ==
    IF ds = << >> THEN 0
    ELSE 10 * IntVal(SubSeq(ds, 1, Len(ds) - 1)) + DigitVal(ds[Len(ds)])
RECURSIVE FracVal(_, _)
FracVal(ds, unit) ==
    IF ds = << >> \/ unit = 0 THEN 0
    ELSE DigitVal(Head(ds)) * unit + FracVal(Tail(ds), unit \div 10)
ParseFloat(text) ==
    LET signed == text # << >> /\ Head(text) \in {"-", "+"}
        body == IF signed THEN Tail(text) ELSE text
        dots == {i \in 1..Len(body) : body[i] = "."}
        dot == IF dots = {} THEN Len(body) + 1 ELSE CHOOSE i \in dots : TRUE
        ip == SubSeq(body, 1, dot - 1)
        fp == SubSeq(body, dot + 1, Len(body))
        ok == /\ Cardinality(dots) <= 1
              /\ Len(ip) + Len(fp) >= 1
              /\ \A i \in 1..Len(ip) : IsDigit(ip[i])
              /\ \A i \in 1..Len(fp) : IsDigit(fp[i])
        mag == IntVal(ip) * Scale + FracVal(fp, Scale \div 10)
    IN  IF ~ok THEN None
        ELSE IF signed /\ Head(text) = "-" THEN Some(0 - mag) ELSE Some(mag)

\* ------------------------------------------------------------------- inputs

\* What the operator types into the TextBox
SubmitTexts(v) ==
    IF v = "manual"
    THEN { << "3", "0", "0" >>, << "-", "5", ".", "5" >>, << "a", "b", "c" >> }
    ELSE { << "2", "5", "0", ".", "0", "0", "4" >>, << "a", "b", "c" >> }

\* What the sensor yields, acquisition by acquisition
\* (read_temperature_from_roi: a temperature or None)
RampScript == << Some(Deg(20)), Some(Deg(60)), Some(Deg(110)),
                 Some(Deg(150)), Some(Deg(151)) >>
GapScript  == << None, Some(Deg(300)), Some(Deg(151)), None, Some(Deg(300)) >>
JumpScript == << Some(Deg(20)), Some(Deg(150)), Some(Deg(300)),
                 Some(Deg(151)) >>
ShortRamp  == << Some(Deg(20)), Some(Deg(150)), Some(Deg(300)) >>
ShortGap   == << Some(Deg(150)), None, Some(Deg(20)) >>
CrossUp    == << Some(Deg(295)), Some(Deg(300)), Some(Deg(305)) >>
CrossDown  == << Some(Deg(300)), Some(Deg(20)), Some(Deg(295)) >>
CrossAtSeven == << Some(Deg(240)), Some(Deg(250)), Some(Deg(260)),
                   Some(Deg(270)), Some(Deg(280)), Some(Deg(290)),
                   Some(Deg(300)), Some(Deg(295)), Some(Deg(305)) >>
AcqScripts(v) ==
    CASE v = "threaded" -> {ShortRamp, ShortGap}
      [] v = "manual" -> {CrossUp, CrossDown}
      [] OTHER -> {RampScript, GapScript, JumpScript}

\* How long control-loop iteration k takes (acquisition + sleep), in seconds
Paces(v) == IF HasSampler(v) THEN {"burst"}
            ELSE {"steady", "burst", "stall"}
Elapsed(p, k) ==
    CASE p = "steady" -> 1
      [] p = "burst" -> IF k % 2 = 0 THEN 0 ELSE 1
      [] OTHER -> PID_DURATION

\* -------------------------------------------------------------------- state

VARIABLES
    variant,        \* which script runs
    acq,            \* the sensor's answers, in order
    pace,           \* the timing pattern of the control loop
    nacq,           \* acquisitions made so far
    tick,           \* control-loop iterations started so far
    clock,          \* time.time(), seconds
    pc,             \* where the main thread is
    exit_by,        \* how the control loop was left
    submits,        \* texts submitted so far
    fig,            \* the plot window: "none", "open", "closed"
    ser_out,        \* the bytes handed to ser.write, in order
    ser_open,       \* the serial port is open
    csv_rows,       \* the rows written to the log after the header
    csv_flushed,    \* how many of them a flush has made durable
    csv_open,       \* the log file is open
    last_flush,     \* _last_flush
    preheat_rows,   \* rows written by the preheat loop
    finished,       \* times "[PREHEAT] FINISHED" was reached
    outlier_prev,   \* outlier.prev
    pid,            \* the PID object: setpoint, integral, last_error, last_time
    pwm,            \* the pwm variable (manual duty / last PID duty)
    start_pid,      \* start_pid of the bounded script
    crossing_time_rel, \* threshold crossing time of the manual script
    latest,         \* the shared slot: [temp, ts]
    stop_evt,       \* the Event shared with the worker
    spc,            \* where the worker thread is
    joined,         \* thr.join returned: "no", "exited", "timeout"
    f_in,           \* pure-function checks: the argument
    f_out,          \* pure-function checks: the result
    wall,           \* datetime.now() of the host, seconds
    logdir,         \* the names of the files in logs/
    runs,           \* the script launches so far, each with its progress
    cal_in,         \* gray_calibrate: what the operator entered and selected
    cal_pc,         \* gray_calibrate: where main is
    lut,            \* gray_calibrate: the table built
    artifacts,      \* gray_calibrate: the files written to calibration/
    printed         \* gray_calibrate: the lines printed after the build

\* the script and its inputs; the host; both are left alone by a control run
scriptVars == << variant, acq, pace >>
hostVars == << wall, logdir, runs >>
calVars == << cal_in, cal_pc, lut, artifacts, printed >>
envVars == << scriptVars, hostVars, calVars >>
loopVars == << nacq, tick, clock, pc, exit_by, fig, submits >>
ioVars == << ser_out, ser_open, csv_rows, csv_flushed, csv_open, last_flush,
             preheat_rows, finished >>
ctlVars == << outlier_prev, pid, pwm, start_pid, crossing_time_rel >>
thrVars == << latest, stop_evt, spc, joined >>
pureVars == << f_in, f_out >>
vars == << envVars, loopVars, ioVars, ctlVars, thrVars, pureVars >>
\* everything a control run reads or writes
controlVars == << scriptVars, loopVars, ioVars, ctlVars, thrVars, pureVars >>

Acq(i) == IF i <= Len(acq) THEN acq[i] ELSE None

\* the control loop is explored for this many iterations
MaxTicks == Len(acq) + ExtraTicks

\* A setpoint change that also restarts the controller
SetSetpoint_restart(p, x) ==
    [p EXCEPT !.setpoint = x, !.integral = 0, !.last_time = None]

\* pid.setpoint = x
SetSetpoint(p, x) == [p EXCEPT !.setpoint = x]

\* PID(Kp, Ki, Kd, setpoint).__init__
NewPID(sp) == [setpoint |-> sp, integral |-> 0, last_error |-> 0,
               last_time |-> None]

\* One script, constructed, with an empty logs/ directory behind it
IdleHost == wall = Clock0 /\ logdir = {} /\ runs = << >>

\* gray_calibrate.py has not been started
IdleCal ==
    /\ cal_in = None /\ cal_pc = "off" /\ lut = None
    /\ artifacts = {} /\ printed = << >>

InitFor(v) ==
    /\ IdleHost /\ IdleCal
    /\ variant = v
    /\ nacq = 0 /\ tick = 0 /\ clock = Clock0
    /\ pc = CASE v = "manual" -> "manual"
              [] v = "bounded" -> "preheat"
              [] OTHER -> "start"
    /\ exit_by = "none" /\ submits = 0
    /\ fig = IF v \in {"manual", "bounded"} THEN "open" ELSE "none"
    /\ ser_out = << >> /\ ser_open = TRUE
    /\ csv_rows = << >> /\ csv_flushed = 0 /\ csv_open = TRUE
    /\ last_flush = Clock0
    /\ preheat_rows = 0 /\ finished = 0
    /\ outlier_prev = None
    /\ pid = NewPID(InitialSetpoint(v))
    /\ pwm = clamp_uint8(Deg(PWM0))
    /\ start_pid = None
    /\ crossing_time_rel = None
    /\ latest = [temp |-> None, ts |-> 0]
    /\ stop_evt = FALSE
    /\ spc = IF HasSampler(v) THEN "wait" ELSE "idle"
    /\ joined = "no"
    /\ f_in = None /\ f_out = None

Init ==
    \E v \in Variants :
        /\ acq \in AcqScripts(v)
        /\ pace \in Paces(v)
        /\ InitFor(v)

\* ------------------------------------------------------------------ helpers

Running == pc \in {"start", "preheat", "active", "manual"}
InLoop == pc \in {"preheat", "active", "manual"}
Ended == pc \in {"done", "aborted"}

\* The statement at pc is inside the script's try ... finally
Protected ==
    CASE variant = "loop2" -> pc = "active"
      [] variant \in {"threaded", "test"} -> pc \in {"preheat", "active"}
      [] OTHER -> pc \in {"preheat", "active", "manual"}

\* A handler that starts the heating again
Raise_retry(k) ==
    /\ pc' = "preheat"
    /\ exit_by' = k

\* An exception of kind k leaves the loop: to the finally block when the
\* statement is protected, out of the process otherwise
Raise(k) ==
    /\ pc' = IF Protected THEN "sd_zero" ELSE "aborted"
    /\ exit_by' = k

\* The phase of section 4.4
Phase ==
    CASE pc \in {"start", "preheat"} -> "Preheat"
      [] pc = "active" -> "Active"
      [] pc = "manual" -> "Manual"
      [] pc \in {"sd_zero", "sd_stop", "sd_join", "sd_close", "sd_flush"}
            -> "Shutdown"
      [] OTHER -> "Exited"

\* ser.write of `bytes`, csv_writer.writerow of `rows`, and, when `check`,
\* the once-a-second flush test
IOEffect(bytes, rows, check, now) ==
    /\ ser_out' = ser_out \o bytes
    /\ csv_rows' = csv_rows \o rows
    /\ IF check /\ now - last_flush >= FLUSH_PERIOD
       THEN csv_flushed' = Len(csv_rows') /\ last_flush' = now
       ELSE UNCHANGED << csv_flushed, last_flush >>

\* A loop that takes the slot only when it was stamped since the last tick
Sample_fresh ==
    IF HasSampler(variant)
    THEN (IF latest.ts >= clock THEN latest.temp ELSE None)
    ELSE Acq(nacq + 1)

\* The sample an iteration works on: the slot (worker variants) or a
\* synchronous acquisition
Sample == IF HasSampler(variant) THEN latest.temp ELSE Acq(nacq + 1)

\* An iteration starts: time passes, a synchronous read is consumed
Advance ==
    /\ tick' = tick + 1
    /\ clock' = clock + Elapsed(pace, tick + 1)
    /\ nacq' = IF HasSampler(variant) THEN nacq ELSE nacq + 1

\* A preheat row whose error is taken against the preheat target
PreheatRow_target(T, now, sp) ==
    [t |-> Fmt4(now - Clock0), temp |-> Some(Fmt4(T)), setpoint |-> Some(Fmt2(sp)),
     pwm |-> PWM_PREHEAT, err |-> Some(Fmt4(PREHEAT_TARGET(variant) - T))]

\* The row the preheat loop writes
PreheatRow(T, now, sp) ==
    [t |-> Fmt4(now - Clock0), temp |-> Some(Fmt4(T)), setpoint |-> Some(Fmt2(sp)),
     pwm |-> PWM_PREHEAT, err |-> Some(Fmt4(sp - T))]

\* A row that carries the duty of the iteration before
ActiveRow_stale(tf, now, sp, duty, err) ==
    [t |-> Fmt4(now - Clock0), temp |-> Some(Fmt4(tf)), setpoint |-> Some(Fmt2(sp)),
     pwm |-> pwm, err |-> Some(Fmt4(err))]

\* The row the PID loop writes
ActiveRow(tf, now, sp, duty, err) ==
    [t |-> Fmt4(now - Clock0), temp |-> Some(Fmt4(tf)), setpoint |-> Some(Fmt2(sp)),
     pwm |-> duty, err |-> Some(Fmt4(err))]

\* The row the manual loop writes
ManualRow(tf, now, duty) ==
    [t |-> Fmt4(now - Clock0), temp |-> Some(Fmt4(tf)), setpoint |-> None,
     pwm |-> duty, err |-> None]

\* ---------------------------------------------------------------- preheat

\* The first n statements of a preheat iteration on sample T:
\* 1 ser.write(PWM_PREHEAT), 2 writerow, 3 flush test.  `attempt`: the
\* write was handed to the port also when n = 0 (it raised).
PreheatBody(T, now, n, attempt) ==
    LET has == T # None
        sp == IF variant = "bounded" THEN Deg(SETPOINT) ELSE pid.setpoint
        rows == IF has /\ n >= 2 THEN << PreheatRow(Val(T), now, sp) >> ELSE << >>
    IN  /\ IOEffect(IF n >= 1 \/ attempt THEN << PWM_PREHEAT >> ELSE << >>,
                    rows, has /\ n >= 3, now)
        /\ preheat_rows' = preheat_rows + Len(rows)

\* ser.write(bytes([PWM_PREHEAT])) before the preheat loop
StartPreheat ==
    /\ pc = "start"
    /\ ser_out' = Append(ser_out, PWM_PREHEAT)
    /\ \E ok \in BOOLEAN :
          IF ok THEN pc' = "preheat" /\ exit_by' = exit_by ELSE Raise("io")
    /\ UNCHANGED << envVars, nacq, tick, clock, fig, submits, ser_open, csv_rows,
                    csv_flushed, csv_open, last_flush, preheat_rows, finished,
                    ctlVars, thrVars, pureVars >>

\* The target test with a strict comparison
TargetReached_strict(T) == T # None /\ Val(T) > PREHEAT_TARGET(variant)

\* A preheat that gives up waiting after its second tick
TargetReached_timeout(T) ==
    (T # None /\ Val(T) >= PREHEAT_TARGET(variant)) \/ tick >= 2

\* if temp >= PREHEAT_TARGET: break
TargetReached(T) == T # None /\ Val(T) >= PREHEAT_TARGET(variant)

\* One complete iteration of the preheat loop
PreheatTick ==
    /\ pc = "preheat" /\ tick < MaxTicks
    /\ ~(variant = "bounded" /\ fig # "open")
    /\ LET now == clock + Elapsed(pace, tick + 1)
           T == Sample
       IN  /\ Advance
           /\ PreheatBody(T, now, 3, FALSE)
           /\ IF TargetReached(T)
              THEN /\ pc' = "active"
                   /\ finished' = finished + 1
                   /\ fig' = IF variant = "bounded" THEN fig ELSE "open"
                   /\ pid' = IF variant = "bounded" THEN NewPID(Deg(SETPOINT)) ELSE pid
                   /\ start_pid' = IF variant = "bounded" THEN Some(now) ELSE start_pid
              ELSE UNCHANGED << pc, finished, fig, pid, start_pid >>
    /\ pwm' = IF variant = "bounded" THEN PWM_PREHEAT ELSE pwm
    /\ UNCHANGED << envVars, exit_by, submits, ser_open, csv_open, outlier_prev,
                    crossing_time_rel, thrVars, pureVars >>

\* if not plt.fignum_exists(fig.number): return   (bounded script)
PreheatWindowClosed ==
    /\ pc = "preheat" /\ variant = "bounded" /\ fig # "open"
    /\ pc' = "sd_zero" /\ exit_by' = "window"
    /\ UNCHANGED << envVars, nacq, tick, clock, fig, submits, ioVars, ctlVars, thrVars,
                    pureVars >>

\* A preheat iteration whose ser.write raises
PreheatRaises ==
    /\ pc = "preheat" /\ tick < MaxTicks
    /\ ~(variant = "bounded" /\ fig # "open")
    /\ LET now == clock + Elapsed(pace, tick + 1)
           T == Sample
       IN  /\ Advance
           /\ PreheatBody(T, now, 0, TRUE)
           /\ Raise("io")
    /\ pwm' = IF variant = "bounded" THEN PWM_PREHEAT ELSE pwm
    /\ UNCHANGED << envVars, fig, submits, ser_open, csv_open, finished,
                    outlier_prev, pid, start_pid, crossing_time_rel, thrVars,
                    pureVars >>

\* ----------------------------------------------------------------- active

\* tf = outlier.update(temp); the bounded script has no filter
Filtered(T) ==
    IF HasFilter(variant)
    THEN OutlierFilterUpdate(outlier_prev, FilterMaxDelta(variant), T)
    ELSE [ret |-> T, prev |-> outlier_prev]

\* An iteration that repeats the last duty when there is no sample
ActiveNoSample_hold ==
    /\ ser_out' = Append(ser_out, pwm)
    /\ UNCHANGED << outlier_prev, pid, pwm, csv_rows, csv_flushed, last_flush >>

\* `if temp is not None:` fails: the iteration only sleeps
ActiveNoSample ==
    UNCHANGED << outlier_prev, pid, pwm, ser_out, csv_rows, csv_flushed,
                 last_flush >>

\* The first n statements of a PID iteration on sample T:
\* 1 outlier.update, 2 pid.update, 3 ser.write(pwm), 4 writerow,
\* 5 flush test.  `attempt`: the write was handed to the port and raised.
ActiveBody(T, now, n, attempt) ==
    LET has == T # None
        f == Filtered(Val(T))
        r == PIDUpdate(pid, Kp(variant), Ki(variant), Kd(variant), f.ret, now)
        sp == IF variant = "bounded" THEN Deg(SETPOINT) ELSE pid.setpoint
        err == IF variant = "bounded" THEN sp - f.ret ELSE r.e
    IN  IF has
        THEN /\ outlier_prev' = IF n >= 1 THEN f.prev ELSE outlier_prev
             /\ pid' = IF n >= 2 THEN r.pid ELSE pid
             /\ pwm' = IF n >= 2 THEN r.out ELSE pwm
             /\ IOEffect(IF n >= 3 \/ attempt THEN << r.out >> ELSE << >>,
                         IF n >= 4 THEN << ActiveRow(f.ret, now, sp, r.out, err) >>
                                   ELSE << >>,
                         n >= 5, now)
        ELSE ActiveNoSample

\* A PID loop that only the window ends
ActiveContinues_forever == fig = "open"

\* The loop condition of the PID loop holds
ActiveContinues ==
    /\ variant = "bounded" => clock - Val(start_pid) < PID_DURATION
    /\ fig = "open"

\* One complete iteration of the PID loop
ActiveTick ==
    /\ pc = "active" /\ tick < MaxTicks
    /\ ActiveContinues
    /\ Advance
    /\ ActiveBody(Sample, clock', 5, FALSE)
    /\ UNCHANGED << envVars, pc, exit_by, fig, submits, ser_open, csv_open,
                    preheat_rows, finished, start_pid, crossing_time_rel,
                    thrVars, pureVars >>

\* The PID loop ends: the window is gone or, in the bounded script, the
\* duration has elapsed
ActiveLoopExit ==
    /\ pc = "active"
    /\ ~ActiveContinues
    /\ pc' = "sd_zero"
    /\ exit_by' = IF variant = "bounded"
                     /\ clock - Val(start_pid) >= PID_DURATION
                  THEN "duration" ELSE "window"
    /\ UNCHANGED << envVars, nacq, tick, clock, fig, submits, ioVars, ctlVars, thrVars,
                    pureVars >>

\* A PID iteration whose ser.write raises: the filter and the PID have been
\* updated, nothing is logged
ActiveRaises ==
    /\ pc = "active" /\ tick < MaxTicks
    /\ ActiveContinues
    /\ Sample # None
    /\ Advance
    /\ ActiveBody(Sample, clock', 2, TRUE)
    /\ Raise("io")
    /\ UNCHANGED << envVars, fig, submits, ser_open, csv_open, preheat_rows, finished,
                    start_pid, crossing_time_rel, thrVars, pureVars >>

\* ----------------------------------------------------------------- manual

\* A crossing test that forgets that the crossing has been recorded
Crossed_again(tf) == tf >= Deg(THRESHOLD_C)

\* if crossing_time_rel is None and tf >= THRESHOLD_C
Crossed(tf) == crossing_time_rel = None /\ tf >= Deg(THRESHOLD_C)

\* The first n statements of an iteration of the manual loop:
\* 1 ser.write(pwm), 2 outlier.update, 3 crossing test, 4 writerow,
\* 5 flush test
ManualBody(T, now, n, attempt) ==
    LET has == T # None
        f == Filtered(Val(T))
        t == now - Clock0
    IN  /\ outlier_prev' = IF has /\ n >= 2 THEN f.prev ELSE outlier_prev
        /\ crossing_time_rel' =
              IF has /\ n >= 3 /\ Crossed(f.ret)
              THEN Some(t) ELSE crossing_time_rel
        /\ IOEffect(IF n >= 1 \/ attempt THEN << pwm >> ELSE << >>,
                    IF has /\ n >= 4 THEN << ManualRow(f.ret, now, pwm) >>
                                     ELSE << >>,
                    has /\ n >= 5, now)

\* One complete iteration of the manual loop
ManualTick ==
    /\ pc = "manual" /\ tick < MaxTicks
    /\ fig = "open"
    /\ Advance
    /\ ManualBody(Sample, clock', 5, FALSE)
    /\ UNCHANGED << envVars, pc, exit_by, fig, submits, ser_open, csv_open,
                    preheat_rows, finished, pid, pwm, start_pid, thrVars,
                    pureVars >>

\* while plt.fignum_exists(fig.number) fails
ManualLoopExit ==
    /\ pc = "manual" /\ fig # "open"
    /\ pc' = "sd_zero" /\ exit_by' = "window"
    /\ UNCHANGED << envVars, nacq, tick, clock, fig, submits, ioVars, ctlVars, thrVars,
                    pureVars >>

\* An iteration of the manual loop whose ser.write raises
ManualRaises ==
    /\ pc = "manual" /\ tick < MaxTicks
    /\ fig = "open"
    /\ Advance
    /\ ManualBody(Sample, clock', 0, TRUE)
    /\ Raise("io")
    /\ UNCHANGED << envVars, fig, submits, ser_open, csv_open, preheat_rows, finished,
                    pid, pwm, start_pid, thrVars, pureVars >>

\* ------------------------------------------------------------ environment

\* The operator closes the plot window
CloseWindow ==
    /\ fig = "open" /\ Running
    /\ fig' = "closed"
    /\ UNCHANGED << envVars, nacq, tick, clock, pc, exit_by, submits, ioVars, ctlVars,
                    thrVars, pureVars >>

\* An except branch that falls back to zero
OnInvalid_reset(old) == 0

\* except ValueError: print("[WARN] ..."): the value stays as it was
OnInvalid(old) == old

\* submit(text): the TextBox callback, run by the GUI event loop between two
\* iterations.  The PID scripts set pid.setpoint, the manual script sets pwm.
SubmitOf(text) ==
    /\ pc \in {"active", "manual"} /\ variant # "bounded" /\ fig = "open"
    /\ submits < MaxSubmits
    /\ submits' = submits + 1
    /\ LET x == ParseFloat(text)
       IN  IF variant = "manual"
           THEN /\ pwm' = IF x # None THEN clamp_uint8(Val(x))
                                      ELSE OnInvalid(pwm)
                /\ pid' = pid
           ELSE /\ pid' = IF x # None THEN SetSetpoint(pid, Val(x))
                          ELSE SetSetpoint(pid, OnInvalid(pid.setpoint))
                /\ pwm' = pwm
    /\ UNCHANGED << envVars, nacq, tick, clock, pc, exit_by, fig, ioVars,
                    outlier_prev, start_pid, crossing_time_rel, thrVars >>

Submit ==
    /\ \E text \in SubmitTexts(variant) : SubmitOf(text)
    /\ UNCHANGED pureVars

\* Ctrl-C while the main thread is between two iterations (in time.sleep)
KeyboardInterrupt ==
    /\ InLoop
    /\ Raise("interrupt")
    /\ UNCHANGED << envVars, nacq, tick, clock, fig, submits, ioVars, ctlVars, thrVars,
                    pureVars >>

\* --------------------------------------------------------------- shutdown

\* ser.write(bytes([0])) of the finally block.  When it raises: the test,
\* threaded and manual scripts swallow the exception; the bounded script
\* swallows it and skips ser.close(); loop2 has no handler around it.
ShutdownZero ==
    /\ pc = "sd_zero"
    /\ ser_out' = Append(ser_out, 0)
    /\ \E ok \in BOOLEAN :
          pc' = CASE ~ok /\ variant = "loop2" -> "aborted"
                  [] ~ok /\ variant = "bounded" -> "sd_flush"
                  [] HasSampler(variant) -> "sd_stop"
                  [] OTHER -> "sd_close"
    /\ UNCHANGED << envVars, nacq, tick, clock, exit_by, fig, submits, ser_open,
                    csv_rows, csv_flushed, csv_open, last_flush, preheat_rows,
                    finished, ctlVars, thrVars, pureVars >>

\* stop_evt.set()
ShutdownStop ==
    /\ pc = "sd_stop"
    /\ stop_evt' = TRUE
    /\ pc' = "sd_join"
    /\ UNCHANGED << envVars, nacq, tick, clock, exit_by, fig, submits, ioVars, ctlVars,
                    latest, spc, joined, pureVars >>

\* A join without a timeout
ShutdownJoin_wait ==
    /\ pc = "sd_join"
    /\ spc = "exited"
    /\ joined' = "exited"
    /\ pc' = "sd_close"
    /\ UNCHANGED << envVars, nacq, tick, clock, exit_by, fig, submits, ioVars, ctlVars,
                    latest, stop_evt, spc, pureVars >>

\* thr.join(timeout=1.0): returns when the worker has ended, or after the
\* timeout with the worker still running
ShutdownJoin ==
    /\ pc = "sd_join"
    /\ joined' = IF spc = "exited" THEN "exited" ELSE "timeout"
    /\ pc' = "sd_close"
    /\ UNCHANGED << envVars, nacq, tick, clock, exit_by, fig, submits, ioVars, ctlVars,
                    latest, stop_evt, spc, pureVars >>

\* ser.close()
ShutdownClose ==
    /\ pc = "sd_close"
    /\ ser_open' = FALSE
    /\ pc' = "sd_flush"
    /\ UNCHANGED << envVars, nacq, tick, clock, exit_by, fig, submits, ser_out,
                    csv_rows, csv_flushed, csv_open, last_flush, preheat_rows,
                    finished, ctlVars, thrVars, pureVars >>

\* csv_file.flush(); csv_file.close()
ShutdownFlush ==
    /\ pc = "sd_flush"
    /\ csv_flushed' = Len(csv_rows)
    /\ csv_open' = FALSE
    /\ pc' = "done"
    /\ UNCHANGED << envVars, nacq, tick, clock, exit_by, fig, submits, ser_out,
                    ser_open, csv_rows, last_flush, preheat_rows, finished,
                    ctlVars, thrVars, pureVars >>

\* ----------------------------------------------------------------- worker

\* A loop test that does not look at the stop signal
LoopTest_deaf == "reading"

\* while not stop_evt.is_set()
LoopTest == IF stop_evt THEN "exited" ELSE "reading"

\* while not stop_evt.is_set(), reached at start and after each wait
SamplerLoop ==
    /\ spc = "wait" /\ ~Ended
    /\ spc' = LoopTest
    /\ UNCHANGED << envVars, loopVars, ioVars, ctlVars, latest, stop_evt,
                    joined, pureVars >>

\* A worker that keeps the first value it has read
Published_first(T) ==
    IF T # None /\ latest.temp = None THEN [latest EXCEPT !.temp = T]
    ELSE latest

\* A worker that stores whatever the read returned
Published_always(T) == [latest EXCEPT !.temp = T]

\* if t is not None: latest["temp"] = t
Published(T) == IF T # None THEN [latest EXCEPT !.temp = T] ELSE latest

\* A worker that a failed acquisition ends
AfterRead_die(T) == IF T # None THEN "stamp" ELSE "exited"

\* Where the worker goes after the acquisition: to the second store of a
\* publish, or (nothing read, or an exception swallowed) on to its wait
AfterRead(T) == IF T # None THEN "stamp" ELSE "wait"

\* read_temperature_from_roi returns; a value is stored in latest["temp"]
SamplerRead ==
    /\ spc = "reading" /\ ~Ended
    /\ LET T == Acq(nacq + 1)
       IN  /\ nacq' = Min(nacq + 1, Len(acq))
           /\ latest' = Published(T)
           /\ spc' = AfterRead(T)
    /\ UNCHANGED << envVars, tick, clock, pc, exit_by, fig, submits, ioVars, ctlVars,
                    stop_evt, joined, pureVars >>

\* A worker that also stamps the controller with the time of its sample
SamplerStamp_pid ==
    /\ spc = "stamp" /\ ~Ended
    /\ latest' = [latest EXCEPT !.ts = clock]
    /\ pid' = [pid EXCEPT !.last_time = Some(clock)]
    /\ spc' = "wait"
    /\ UNCHANGED << envVars, loopVars, ioVars, outlier_prev, pwm, start_pid,
                    crossing_time_rel, stop_evt, joined, pureVars >>

\* latest["ts"] = time.time()
SamplerStamp ==
    /\ spc = "stamp" /\ ~Ended
    /\ latest' = [latest EXCEPT !.ts = clock]
    /\ spc' = "wait"
    /\ UNCHANGED << envVars, loopVars, ioVars, ctlVars, stop_evt, joined,
                    pureVars >>

\* ------------------------------------------------------------ specification

Next ==
    \/ StartPreheat
    \/ PreheatTick
    \/ PreheatWindowClosed
    \/ PreheatRaises
    \/ ActiveTick
    \/ ActiveLoopExit
    \/ ActiveRaises
    \/ ManualTick
    \/ ManualLoopExit
    \/ ManualRaises
    \/ CloseWindow
    \/ Submit
    \/ KeyboardInterrupt
    \/ ShutdownZero
    \/ ShutdownStop
    \/ ShutdownJoin
    \/ ShutdownClose
    \/ ShutdownFlush
    \/ SamplerLoop
    \/ SamplerRead
    \/ SamplerStamp

Spec == Init /\ [][Next]_vars

\* ------------------------------------------- the ramp scenario (threaded)

\* The threaded script on the measurement sequence 20, 60, 110, 150, 151,
\* with nothing going wrong: no failing write, no interrupt, window open
InitRamp ==
    /\ acq = RampScript
    /\ pace = "steady"
    /\ InitFor("threaded")

RampStart ==
    /\ StartPreheat
    /\ pc' = "preheat"

NextRamp ==
    \/ RampStart
    \/ PreheatTick
    \/ ActiveTick
    \/ SamplerLoop
    \/ SamplerRead
    \/ SamplerStamp

SpecRamp == InitRamp /\ [][NextRamp]_vars

\* ------------------------------------- the crossing scenario (manual)

\* The manual script on a measurement sequence that reaches 300 with its
\* seventh value and then oscillates, one second per tick, window open.
\* The worker and the loop run at about the same pace: the worker is never
\* more than two acquisitions ahead of the loop, the loop never more than
\* one tick ahead of the worker.
InitCross ==
    /\ acq = CrossAtSeven
    /\ pace = "steady"
    /\ InitFor("manual")

CrossTick ==
    /\ tick <= nacq
    /\ ManualTick

CrossRead ==
    /\ nacq <= tick + 1
    /\ SamplerRead

NextCross ==
    \/ CrossTick
    \/ CrossRead
    \/ SamplerLoop
    \/ SamplerStamp

SpecCross == InitCross /\ [][NextCross]_vars

\* ------------------------------------------ stopping the worker thread

\* The scripts with a worker, interrupted before or between ticks, then
\* shutting down.  The worker thread is scheduled again and again and its
\* acquisition returns: weak fairness on its three steps.  The main thread
\* may take arbitrarily long over any step.
InitStop ==
    \E v \in {w \in Variants : HasSampler(w)} :
        /\ acq \in AcqScripts(v)
        /\ pace \in Paces(v)
        /\ InitFor(v)

NextStop ==
    \/ StartPreheat
    \/ KeyboardInterrupt
    \/ ShutdownZero
    \/ ShutdownStop
    \/ ShutdownJoin
    \/ ShutdownClose
    \/ ShutdownFlush
    \/ SamplerLoop
    \/ SamplerRead
    \/ SamplerStamp

SpecStop ==
    /\ InitStop /\ [][NextStop]_vars
    /\ WF_vars(SamplerLoop) /\ WF_vars(SamplerRead) /\ WF_vars(SamplerStamp)

\* ------------------------------------- shutting down past a blocked worker

\* The scripts with a worker, as above, but now it is the main thread that
\* runs on: each statement of its finally block returns (thr.join after its
\* timeout at the latest).  Nothing is assumed of the worker: its
\* acquisition may take for ever.
SpecJoin ==
    /\ InitStop /\ [][NextStop]_vars
    /\ WF_vars(ShutdownZero) /\ WF_vars(ShutdownStop) /\ WF_vars(ShutdownJoin)
    /\ WF_vars(ShutdownClose) /\ WF_vars(ShutdownFlush)

\* --------------------------------- the fixed duration (bounded script)

\* The bounded script on measurement sequences long enough for the duration
\* to elapse at every pace: the target is reached with the first sample;
\* then either no sample arrives any more, or samples arrive on and off.
DurationTicks == 2 * PID_DURATION + 1
NoSampleScript ==
    [i \in 1..DurationTicks |-> IF i = 1 THEN Some(Deg(SETPOINT)) ELSE None]
OnOffScript ==
    [i \in 1..DurationTicks |->
        IF i % 3 = 0 THEN None ELSE Some(Deg(SETPOINT) - (i % 2) * Scale)]

InitDuration ==
    /\ acq \in {NoSampleScript, OnOffScript}
    /\ pace \in Paces("bounded")
    /\ InitFor("bounded")

NextDuration ==
    \/ PreheatTick
    \/ PreheatWindowClosed
    \/ PreheatRaises
    \/ ActiveTick
    \/ ActiveLoopExit
    \/ ActiveRaises
    \/ CloseWindow
    \/ KeyboardInterrupt
    \/ ShutdownZero
    \/ ShutdownClose
    \/ ShutdownFlush

\* The main thread runs on: an iteration that can start does start (the
\* acquisition and time.sleep(LOOP_DT) return), a loop that can be left is
\* left.  Nothing is assumed of the operator or of the serial port.
SpecDuration ==
    /\ InitDuration /\ [][NextDuration]_vars
    /\ WF_vars(PreheatTick) /\ WF_vars(ActiveTick) /\ WF_vars(ActiveLoopExit)

\* ------------------------------------ a sensor that falls silent (flush)

\* Every script on a measurement sequence that reaches the preheat target,
\* gives one more value and then nothing: read_temperature_from_roi keeps
\* returning None while the loop keeps running.
QuietScript == << Some(Deg(300)), Some(Deg(151)), None, None, None, None >>

InitFlush ==
    \E v \in Variants :
        /\ acq = QuietScript
        /\ pace \in Paces(v)
        /\ InitFor(v)

SpecFlush == InitFlush /\ [][Next]_vars

\* ------------------------------------------------- the filter on its own

FilterValues == { Deg(20), Deg(90), Deg(100), Deg(101), Deg(150), Deg(181),
                  Deg(300) }

\* A filter as a script constructs it, before its first update
InitFilter ==
    /\ acq = << >>
    /\ pace = "steady"
    /\ \E v \in {w \in Variants : HasFilter(w)} : InitFor(v)

\* outlier.update(v) for any v
FilterStep ==
    /\ \E v \in FilterValues :
          LET r == OutlierFilterUpdate(outlier_prev, FilterMaxDelta(variant), v)
          IN  /\ f_in' = Some(v)
              /\ f_out' = Some(r.ret)
              /\ outlier_prev' = r.prev
    /\ UNCHANGED << envVars, loopVars, ioVars, pid, pwm, start_pid,
                    crossing_time_rel, thrVars >>

SpecFilter == InitFilter /\ [][FilterStep]_vars

\* --------------------------------------------------- the PID on its own

PidValues == { Deg(0 - 1000), Deg(20), Deg(199), Deg(1000) }
PidSetpoints == { Deg(100), Deg(250) }

\* A PID as a script constructs it, before its first update
InitPID ==
    /\ acq = << >>
    /\ pace = "steady"
    /\ \E v \in {"bounded", "test", "loop2"} : InitFor(v)

\* pid.update(pv) for any pv, elapsed seconds later, with the script's
\* kp and ki and either derivative gain
PidStep ==
    /\ tick < MaxPidSteps
    /\ tick' = tick + 1
    /\ \E pv \in PidValues, elapsed \in {0, 1}, kd \in {Kd(variant), KD_ALT} :
          LET r == PIDUpdate(pid, Kp(variant), Ki(variant), kd, pv,
                             clock + elapsed)
          IN  /\ clock' = clock + elapsed
              /\ pid' = r.pid
              /\ pwm' = r.out
              /\ f_in' = Some([pv |-> pv, kd |-> kd, elapsed |-> elapsed])
              /\ f_out' = Some([out |-> r.out, e |-> r.e, d |-> r.d])
    /\ UNCHANGED << envVars, nacq, pc, exit_by, fig, submits, ioVars,
                    outlier_prev, start_pid, crossing_time_rel, thrVars >>

\* pid.setpoint = sp for any sp
PidSetpoint ==
    /\ submits < MaxSubmits
    /\ submits' = submits + 1
    /\ \E sp \in PidSetpoints : pid' = SetSetpoint(pid, sp)
    /\ UNCHANGED << envVars, nacq, tick, clock, pc, exit_by, fig, ioVars,
                    outlier_prev, pwm, start_pid, crossing_time_rel, thrVars,
                    pureVars >>

NextPID ==
    \/ PidStep
    \/ PidSetpoint

SpecPID == InitPID /\ [][NextPID]_vars

\* ------------------------------------------------- what the operator types

\* The scripts with a TextBox, running with nothing going wrong, and an
\* operator who types numbers and other texts; the text submitted last is
\* kept in f_in.  The texts stay within what ParseFloat covers: no
\* exponent, no "nan", no "inf".
TypedTexts ==
    { << "3", "0", "0" >>, << "-", "5", ".", "5" >>,
      << "1", "2", "8", ".", "9" >>, << "2", "5", "0", ".", "0", "0", "4" >>,
      << "a", "b", "c" >>, << "1", ".", "2", ".", "3" >>, << >>, << "-" >>,
      << "1", "2", "a" >> }

InitSubmit ==
    \E v \in Variants \ {"bounded"} :
        /\ acq \in AcqScripts(v)
        /\ pace \in Paces(v)
        /\ InitFor(v)

SubmitNoted ==
    /\ \E text \in TypedTexts :
          /\ SubmitOf(text)
          /\ f_in' = Some(text)
    /\ f_out' = f_out

NextSubmit ==
    \/ StartPreheat
    \/ PreheatTick
    \/ ActiveTick
    \/ ManualTick
    \/ SamplerLoop
    \/ SamplerRead
    \/ SamplerStamp
    \/ SubmitNoted

SpecSubmit == InitSubmit /\ [][NextSubmit]_vars

\* ------------------------------------------------------ naming the log file

\* File names are sequences of characters.
DigitChar(d) ==
    CASE d = 0 -> "0" [] d = 1 -> "1" [] d = 2 -> "2" [] d = 3 -> "3"
      [] d = 4 -> "4" [] d = 5 -> "5" [] d = 6 -> "6" [] d = 7 -> "7"
      [] d = 8 -> "8" [] OTHER -> "9"

\* str(n) of an integer
RECURSIVE Str(_)
Str(n) ==
    IF n < 0 THEN << "-" >> \o Str(0 - n)
    ELSE IF n < 10 THEN << DigitChar(n) >>
    ELSE Str(n \div 10) \o << DigitChar(n % 10) >>

StartsWith(s, p) == Len(s) >= Len(p) /\ SubSeq(s, 1, Len(p)) = p
EndsWith(s, p) ==
    Len(s) >= Len(p) /\ SubSeq(s, Len(s) - Len(p) + 1, Len(s)) = p

\* s.split(c)[-1] and s.split(c)[0]
SplitLast(s, c) ==
    LET at == {i \in 1..Len(s) : s[i] = c}
    IN  IF at = {} THEN s
        ELSE SubSeq(s, (CHOOSE i \in at : \A j \in at : j <= i) + 1, Len(s))
SplitFirst(s, c) ==
    LET at == {i \in 1..Len(s) : s[i] = c}
    IN  IF at = {} THEN s
        ELSE SubSeq(s, 1, (CHOOSE i \in at : \A j \in at : i <= j) - 1)

\* int(text) for texts of the form [sign] digits; <<>> stands for ValueError
ParseInt(text) ==
    LET signed == text # << >> /\ Head(text) \in {"-", "+"}
        body == IF signed THEN Tail(text) ELSE text
        ok == body # << >> /\ \A i \in 1..Len(body) : IsDigit(body[i])
    IN  IF ~ok THEN None
        ELSE IF signed /\ Head(text) = "-" THEN Some(0 - IntVal(body))
        ELSE Some(IntVal(body))

CsvExt == << ".", "c", "s", "v" >>

\* base_name = f"T{int(SETPOINT)}_{int(PID_DURATION)}"
base_name == << "T" >> \o Str(SETPOINT) \o << "_" >> \o Str(PID_DURATION)

\* get_next_file_number(base_name) when os.listdir(logs_dir) is dir
get_next_file_number(dir, base) ==
    LET existing == {f \in dir : StartsWith(f, base) /\ EndsWith(f, CsvExt)}
        parsed == {ParseInt(SplitFirst(SplitLast(f, "_"), ".")) : f \in existing}
        nums == {Val(x) : x \in parsed \ {None}}
    IN  IF existing = {} \/ nums = {} THEN 1
        ELSE (CHOOSE n \in nums : \A m \in nums : m <= n) + 1

\* The name a run gives its log: f"{base_name}_{file_number}.csv" in the
\* bounded script, f"{datetime.now().strftime('%Y%m%d_%H%M%S')}_<script>.csv"
\* in the others (the stamp is written as the count of seconds)
LogName(v, num, now) ==
    CASE v = "bounded" -> base_name \o << "_" >> \o Str(num) \o CsvExt
      [] v = "manual" ->
            Str(now) \o << "_", "P", "W", "M", "_", "C", "T", "E" >> \o CsvExt
      [] OTHER ->
            Str(now) \o << "_", "T", "_", "c", "o", "n", "t", "r", "o", "l",
                           "_", "l", "o", "o", "p", "_", "2" >> \o CsvExt

\* script launches followed, and seconds of host time that pass
MaxRuns == 2
MaxWall == 2

\* Files that may lie in logs/ before the first launch
OldLogs ==
    { base_name \o << "_", "1" >> \o CsvExt,
      base_name \o << "_", "3" >> \o CsvExt,
      base_name \o << "_", "x" >> \o CsvExt,
      base_name \o << "0", "_", "7" >> \o CsvExt,
      base_name \o << "_", "9", ".", "t", "x", "t" >> }

\* No control loop is running; logs/ is empty and nothing has been launched
InitLogs ==
    /\ acq = << >>
    /\ pace = "steady"
    /\ InitFor("loop2")

\* The operator drops earlier files into logs/ (before any launch)
SeedLogs ==
    /\ runs = << >> /\ logdir = {}
    /\ \E d \in (SUBSET OldLogs) \ {{}} : logdir' = d
    /\ UNCHANGED << wall, runs, calVars, controlVars >>

\* A script is started.  The manual script opens the serial port first, the
\* bounded script numbers its log at import, the others open the log first.
FirstStep(v) ==
    CASE v = "manual" -> "serial"
      [] v = "bounded" -> "number"
      [] OTHER -> "openlog"

Launch ==
    /\ Len(runs) < MaxRuns
    /\ \E v \in Variants :
          runs' = Append(runs, [v |-> v, pc |-> FirstStep(v), num |-> 0,
                                name |-> << >>, existed |-> FALSE,
                                port |-> FALSE])
    /\ UNCHANGED << wall, logdir, calVars, controlVars >>

\* file_number = get_next_file_number(base_name)
RunNumber(i) ==
    /\ runs[i].pc = "number"
    /\ runs' = [runs EXCEPT ![i].num = get_next_file_number(logdir, base_name),
                            ![i].pc = "openlog"]
    /\ UNCHANGED << wall, logdir, calVars, controlVars >>

\* csv_file = open(log_path, "w", ...): creates the file or truncates it
RunOpenLog(i) ==
    /\ runs[i].pc = "openlog"
    /\ LET name == LogName(runs[i].v, runs[i].num, wall)
       IN  /\ runs' = [runs EXCEPT ![i].name = name,
                                   ![i].existed = name \in logdir,
                                   ![i].pc = IF runs[i].v = "manual"
                                             THEN "running" ELSE "serial"]
           /\ logdir' = logdir \cup {name}
    /\ UNCHANGED << wall, calVars, controlVars >>

PortBusy == \E j \in 1..Len(runs) : runs[j].port

\* ser = serial.Serial(PORT, ...) and the time.sleep after it: the port
\* cannot be opened twice, and may be absent
RunSerial(i) ==
    /\ runs[i].pc = "serial"
    /\ \E ok \in BOOLEAN :
          IF ok /\ ~PortBusy
          THEN /\ runs' = [runs EXCEPT ![i].port = TRUE,
                                       ![i].pc = IF runs[i].v = "manual"
                                                 THEN "openlog" ELSE "running"]
               /\ wall' = wall + (IF runs[i].v = "manual" THEN 2 ELSE 1)
          ELSE /\ runs' = [runs EXCEPT ![i].pc = "failed"]
               /\ wall' = wall
    /\ UNCHANGED << logdir, calVars, controlVars >>

\* The run comes to its end and closes the port
RunEnds(i) ==
    /\ runs[i].pc = "running"
    /\ runs' = [runs EXCEPT ![i].pc = "ended", ![i].port = FALSE]
    /\ UNCHANGED << wall, logdir, calVars, controlVars >>

\* A second passes
WallTick ==
    /\ wall < Clock0 + MaxWall
    /\ wall' = wall + 1
    /\ UNCHANGED << logdir, runs, calVars, controlVars >>

NextLogs ==
    \/ SeedLogs
    \/ Launch
    \/ \E i \in 1..Len(runs) : RunNumber(i)
    \/ \E i \in 1..Len(runs) : RunOpenLog(i)
    \/ \E i \in 1..Len(runs) : RunSerial(i)
    \/ \E i \in 1..Len(runs) : RunEnds(i)
    \/ WallTick

SpecLogs == InitLogs /\ [][NextLogs]_vars

\* ------------------------------------------ calibration (gray_calibrate.py)

\* The colorbar is a gray image that is uniform across its thin axis: `bar`
\* is the sequence of its gray values along the long axis.  Positions and
\* temperatures are exact fractions n/d with d > 0, temperatures in degrees;
\* the rounding of float32 is below what the model resolves.
Rat(n, d) == [n |-> n, d |-> d]
RatLess(a, b) == a.n * b.d < b.n * a.d
RatEq(a, b) == a.n * b.d = b.n * a.d

MaxOf(S) == CHOOSE x \in S : \A y \in S : y <= x
MinOf(S) == CHOOSE x \in S : \A y \in S : x <= y

\* np.arange(256): the gray values a table is indexed by
LEVELS == 256
\* the smallest intensity range a colorbar must span
MIN_RANGE == 30
\* the number of violations above which the warning is printed
MAX_BAD == 20

\* BORDER_REFLECT_101 of pixel index p (0-based) in a line of len pixels
RECURSIVE Reflect101(_, _)
Reflect101(p, len) ==
    IF len = 1 THEN 0
    ELSE IF p < 0 THEN Reflect101(0 - p, len)
    ELSE IF p >= len THEN Reflect101(2 * (len - 1) - p, len)
    ELSE p

\* s/16 rounded to the nearest integer; a tie goes up or to the even
\* neighbour, as the build of the library has it
RoundDiv16(s, tie) ==
    LET q == s \div 16
        r == s % 16
    IN  IF r < 8 THEN q
        ELSE IF r > 8 THEN q + 1
        ELSE IF tie = "even" /\ q % 2 = 0 THEN q ELSE q + 1

\* cv2.GaussianBlur with a 5-tap kernel, sigma 0, on 8-bit pixels: the
\* kernel 1 4 6 4 1 over 16 along the line
Blur5(bar, tie) ==
    LET px(p) == bar[Reflect101(p, Len(bar)) + 1]
    IN  [k \in 1..Len(bar) |->
            RoundDiv16(px(k - 3) + 4 * px(k - 2) + 6 * px(k - 1)
                       + 4 * px(k) + px(k + 1), tie)]

\* _average_along_thin_axis(img_bgr, vertical).  The mean over the thin axis
\* and the gray conversion keep the values of such a bar.  cv2 takes the
\* one-dimensional array as an image of L rows and one column, and the
\* kernel size is (width, height): (5, 1), given for a vertical bar, lies
\* across the single column and smooths nothing; (1, 5), given for a
\* horizontal bar, lies along the line.
average_along_thin_axis(bar, vertical, tie) ==
    IF vertical THEN bar ELSE Blur5(bar, tie)

\* A gradient test that asks for two distinct intensities
InsufficientGradient_distinct(line) ==
    Cardinality({line[k] : k \in 1..Len(line)}) < 2

\* A build without the gradient test
InsufficientGradient_never(line) == FALSE

\* intensity_range = np.max(intensities) - np.min(intensities);
\* if intensity_range < 30: raise RuntimeError
InsufficientGradient(line) ==
    LET obs == {line[k] : k \in 1..Len(line)}
    IN  MaxOf(obs) - MinOf(obs) < MIN_RANGE

\* The pixel indexes (0-based) at which intensity v was observed:
\* pos = np.linspace(0, 1, L) gives pixel p the position p / (L - 1)
PixelsOf(line, v) == {k - 1 : k \in {j \in 1..Len(line) : line[j] = v}}

\* Twice the median of a non-empty set of integers
Median2(S) ==
    LET n == Cardinality(S)
        nth(r) == CHOOSE x \in S : Cardinality({y \in S : y <= x}) = r
    IN  IF n % 2 = 1 THEN 2 * nth((n + 1) \div 2)
        ELSE nth(n \div 2) + nth(n \div 2 + 1)

\* median_pos = np.median(sorted_positions[i:j]) for intensity v
UniquePosition(line, v) ==
    Rat(Median2(PixelsOf(line, v)), 2 * (Len(line) - 1))

\* The nearest observed intensity at or below i, and at or above i
RECURSIVE NearestBelow(_, _)
NearestBelow(obs, i) == IF i \in obs THEN i ELSE NearestBelow(obs, i - 1)
RECURSIVE NearestAbove(_, _)
NearestAbove(obs, i) == IF i \in obs THEN i ELSE NearestAbove(obs, i + 1)

\* The straight line through the positions of the observed intensities a
\* and b, at intensity i
Between(i, a, b, line) ==
    LET fa == UniquePosition(line, a)
        fb == UniquePosition(line, b)
    IN  Rat(fa.n * (b - a) + (fb.n - fa.n) * (i - a), fa.d * (b - a))

\* An interpolation that extends the first and last segments outwards
Interp_extend(i, line) ==
    LET obs == {line[k] : k \in 1..Len(line)}
    IN  IF \A o \in obs : o >= i
        THEN Between(i, MinOf(obs), NearestAbove(obs, MinOf(obs) + 1), line)
        ELSE IF \A o \in obs : o <= i
        THEN Between(i, NearestBelow(obs, MaxOf(obs) - 1), MaxOf(obs), line)
        ELSE Between(i, NearestBelow(obs, i), NearestAbove(obs, i + 1), line)

\* np.interp(i, unique_intensities, unique_positions): the value at an
\* observed intensity, the straight line between two neighbours, the end
\* value outside the observed range
Interp(i, line) ==
    LET obs == {line[k] : k \in 1..Len(line)}
    IN  IF \A o \in obs : o >= i THEN UniquePosition(line, MinOf(obs))
        ELSE IF \A o \in obs : o <= i THEN UniquePosition(line, MaxOf(obs))
        ELSE Between(i, NearestBelow(obs, i), NearestAbove(obs, i + 1), line)

\* A conversion that takes the hot end for the cold one
TempOf_swapped(pos, T_min, T_max, hot_at_start) ==
    IF hot_at_start
    THEN Rat(T_min * pos.d + pos.n * (T_max - T_min), pos.d)
    ELSE Rat(T_max * pos.d - pos.n * (T_max - T_min), pos.d)

\* temps = T_max - lut_pos * (T_max - T_min), or T_min + lut_pos * (...)
TempOf(pos, T_min, T_max, hot_at_start) ==
    IF hot_at_start
    THEN Rat(T_max * pos.d - pos.n * (T_max - T_min), pos.d)
    ELSE Rat(T_min * pos.d + pos.n * (T_max - T_min), pos.d)

\* build_intensity_to_temp_lut(colorbar, T_min, T_max, vertical,
\* hot_at_start): <<>> stands for the RuntimeError, otherwise the table,
\* indexed 0..255
build_intensity_to_temp_lut(in) ==
    LET line == average_along_thin_axis(in.bar, in.vertical, in.tie)
    IN  IF InsufficientGradient(line) THEN None
        ELSE Some([i \in 0..(LEVELS - 1) |->
                    TempOf(Interp(i, line), in.T_min, in.T_max,
                           in.hot_at_start)])

\* np.sum(np.diff(lut) > 0) when hot_at_start, np.sum(np.diff(lut) < 0)
\* otherwise
BadCount(table, hot_at_start) ==
    Cardinality({i \in 0..(LEVELS - 2) :
                    IF hot_at_start THEN RatLess(table[i], table[i + 1])
                    ELSE RatLess(table[i + 1], table[i])})

\* the longest bar of arbitrary gray values explored
MaxBar == 3
GrayValues == {100, 110, 130, 159}
\* intensity 0..255 laid out linearly over position 0..1
LinearBar == [k \in 1..LEVELS |-> k - 1]
Bars == UNION {[1..n -> GrayValues] : n \in 1..MaxBar} \cup {LinearBar}
Endpoints == { [T_min |-> 100, T_max |-> 300], [T_min |-> 150, T_max |-> 350] }

\* main: the operator enters T_min and T_max, selects the colorbar and
\* answers the orientation and hot-end questions
CalStart ==
    /\ cal_pc = "off"
    /\ \E bar \in Bars, T \in Endpoints, vertical \in BOOLEAN,
          hot_at_start \in BOOLEAN, tie \in {"up", "even"} :
          /\ vertical => tie = "up"
          /\ cal_in' = Some([bar |-> bar, T_min |-> T.T_min,
                             T_max |-> T.T_max, vertical |-> vertical,
                             hot_at_start |-> hot_at_start, tie |-> tie])
    /\ cal_pc' = "build"
    /\ UNCHANGED << lut, artifacts, printed, hostVars, controlVars >>

\* lut = build_intensity_to_temp_lut(...); its RuntimeError ends main
CalBuild ==
    /\ cal_pc = "build"
    /\ lut' = build_intensity_to_temp_lut(Val(cal_in))
    /\ cal_pc' = IF lut' = None THEN "failed" ELSE "save"
    /\ UNCHANGED << cal_in, artifacts, printed, hostVars, controlVars >>

\* os.makedirs, np.savez(path_npz, lut=lut, ...) and the CSV preview
CalSave ==
    /\ cal_pc = "save"
    /\ artifacts' = {[kind |-> "npz", lut |-> Val(lut)],
                     [kind |-> "csv", lut |-> Val(lut)]}
    /\ cal_pc' = "validate"
    /\ UNCHANGED << cal_in, lut, printed, hostVars, controlVars >>

\* A validation that warns about any violation
Warns_any(bad_count) == bad_count > 0

\* if bad_count > 20: print("WARNING: LUT is not monotonic! ...")
Warns(bad_count) == bad_count > MAX_BAD

\* The validation of the table: the line with the count, and the warning
CalValidate ==
    /\ cal_pc = "validate"
    /\ LET bad_count == BadCount(Val(lut), Val(cal_in).hot_at_start)
       IN  printed' = printed
                \o << [line |-> "validation", count |-> Some(bad_count)] >>
                \o (IF Warns(bad_count)
                    THEN << [line |-> "warning", count |-> None] >>
                    ELSE << >>)
    /\ cal_pc' = "done"
    /\ UNCHANGED << cal_in, lut, artifacts, hostVars, controlVars >>

InitCal ==
    /\ acq = << >>
    /\ pace = "steady"
    /\ InitFor("loop2")

NextCal ==
    \/ CalStart
    \/ CalBuild
    \/ CalSave
    \/ CalValidate

SpecCal == InitCal /\ [][NextCal]_vars

\* ================================================================= claims

\* The last byte handed to ser.write is the zero-duty command
ZeroIssued == ser_out # << >> /\ Last(ser_out) = 0

\* Every row written so far has been made durable and the file is closed
LogClosed == csv_flushed = Len(csv_rows) /\ ~csv_open

\* The temperature column of row i
LogTemp(i) == Val(csv_rows[i].temp)

\* What an outlier filter of the running script, fed the temperatures of
\* rows 1..k in order, holds after row k
RECURSIVE FilteredAt(_)
FilteredAt(k) ==
    IF k = 0 THEN None
    ELSE IF ~HasFilter(variant) THEN Some(LogTemp(k))
    ELSE OutlierFilterUpdate(FilteredAt(k - 1), FilterMaxDelta(variant),
                             LogTemp(k)).prev

\* --------------------------------------------------------------------- C1
\* C1: on every path by which a control run ends (normal completion, window
\* close, keyboard interrupt, a failing actuator write in Preheat or
\* Active) the last value written to the actuator is 0.
C1_LastWriteZero == Ended => ZeroIssued

\* --------------------------------------------------------------------- C2
\* C2: after the control loop stops because of a cancellation, the zero-duty
\* command is issued and the log is flushed before the run ends; and the
\* zero-duty command comes before the stop signal is set, the sampler is
\* joined and the serial port is closed.
C2_CancelShutdown ==
    /\ (Ended /\ exit_by \in {"interrupt", "window"})
          => (ZeroIssued /\ csv_flushed = Len(csv_rows))
    /\ (stop_evt \/ joined # "no" \/ ~ser_open) => ZeroIssued

\* --------------------------------------------------------------------- C3
\* C3: when an actuator write fails during Preheat or Active the run goes
\* to Shutdown, a zero-duty write is attempted, and the log is flushed and
\* closed even if that zero-duty write fails too.
C3_WriteFailureShutdown ==
    (Ended /\ exit_by = "io") => (ZeroIssued /\ LogClosed)

\* --------------------------------------------------------------------- C4
\* C4: an external stop signal raised at any moment of Preheat moves the run
\* from Preheat to Shutdown, whether or not the target has been reached.
C4_StopInPreheat ==
    [][(Phase = "Preheat" /\ exit_by = "none"
          /\ exit_by' \in {"interrupt", "window"})
       => (Phase' = "Shutdown")]_vars

\* --------------------------------------------------------------------- C5
\* C5 as stated: the phase becomes Active at the first Preheat tick whose
\* outlier-filtered measurement is >= the preheat target.
C5_FilteredTarget ==
    finished >= 1 => /\ FilteredAt(preheat_rows) # None
                     /\ Val(FilteredAt(preheat_rows)) >= PREHEAT_TARGET(variant)

\* C5 amended: the phase becomes Active at the first Preheat tick whose raw
\* (unfiltered) measurement is >= the preheat target; while no such
\* measurement has been seen the phase stays Preheat.
C5_RawTarget ==
    /\ pc = "preheat"
          => \A i \in 1..Len(csv_rows) : LogTemp(i) < PREHEAT_TARGET(variant)
    /\ finished >= 1
          => /\ finished = 1 /\ preheat_rows >= 1
             /\ LogTemp(preheat_rows) >= PREHEAT_TARGET(variant)
             /\ \A i \in 1..(preheat_rows - 1) :
                   LogTemp(i) < PREHEAT_TARGET(variant)

\* Active was entered on a measurement that the filter would have rejected
C5_Witness ==
    /\ pc = "active" /\ finished = 1 /\ HasFilter(variant)
    /\ Val(FilteredAt(preheat_rows)) < PREHEAT_TARGET(variant)
    /\ LogTemp(preheat_rows) >= PREHEAT_TARGET(variant)

\* --------------------------------------------------------------------- C6
\* The first k measurements of the ramp, as temperatures
RampTemps(k) == [i \in 1..k |-> Val(RampScript[i])]

\* Tick k has just run and each tick so far saw the next measurement
RampAt(k) ==
    /\ tick = k /\ Len(csv_rows) = k
    /\ [i \in 1..k |-> LogTemp(i)] = RampTemps(k)

\* C6 as stated: target 150, measurements 20, 60, 110, 150, 151, one per
\* tick: Active exactly at the tick of 150, 5 preheat rows, 1 transition.
C6_FiveRows ==
    RampAt(Len(RampScript)) => (preheat_rows = 5 /\ finished = 1)

\* C6 amended: ... Active exactly at the tick of 150 (the fourth), 4 preheat
\* rows are logged (20, 60, 110, 150; 151 is logged by the Active loop), and
\* exactly 1 transition occurs.
C6_FourRows ==
    \A k \in 1..Len(RampScript) :
        RampAt(k) => /\ (pc = "active") = (k >= 4)
                     /\ finished = (IF k >= 4 THEN 1 ELSE 0)
                     /\ preheat_rows = Min(k, 4)

\* The whole ramp has been processed, one measurement per tick
C6_Witness == RampAt(Len(RampScript)) /\ pc = "active" /\ variant = "threaded"

\* --------------------------------------------------------------------- C7
\* C7: in an Active tick where a sample is present the steps happen in the
\* order outlier filter, PID update, actuator write, log append; the row
\* carries the filtered temperature and a pwm equal to the duty written in
\* that tick.  (The bounded script has no filter: its PID and its row take
\* the sample itself.)  The order shows in the data flow - the PID's error is
\* taken from the filter's output, the byte written is the PID's output,
\* the row repeats the byte - and in the tick whose write raises: filter and
\* PID are updated, no row is appended.
C7_ActiveOrder ==
    [][(pc = "active" /\ tick' = tick + 1 /\ Sample # None)
       => LET tf == IF HasFilter(variant) THEN Val(outlier_prev')
                    ELSE Val(Sample)
          IN  /\ HasFilter(variant) =>
                   \/ outlier_prev' = Sample
                   \/ /\ outlier_prev' = outlier_prev
                      /\ Abs(Val(Sample) - tf) > FilterMaxDelta(variant)
              /\ pid'.last_error = pid.setpoint - tf
              /\ pid'.last_time = Some(clock')
              /\ ser_out' = Append(ser_out, pwm')
              /\ IF exit_by' = "none"
                 THEN /\ Len(csv_rows') = Len(csv_rows) + 1
                      /\ Last(csv_rows').temp = Some(tf)
                      /\ Last(csv_rows').pwm = Last(ser_out')
                 ELSE csv_rows' = csv_rows]_vars

\* An Active tick has logged a row for a sample the filter rejected, with a
\* non-zero duty
C7_Witness ==
    /\ pc = "active" /\ Len(csv_rows) > preheat_rows /\ HasFilter(variant)
    /\ ~HasSampler(variant) /\ nacq >= 1 /\ Acq(nacq) # None
    /\ Acq(nacq) # Last(csv_rows).temp
    /\ Last(csv_rows).pwm = Last(ser_out) /\ Last(ser_out) > 0

\* --------------------------------------------------------------------- C8
\* C8: in an Active tick where no sample is present no actuator command is
\* written, no row is appended, the PID state (integral, last error, last
\* update time) and the filter state are unchanged, and the loop goes on.
C8_NoSampleTick ==
    [][(pc = "active" /\ tick' = tick + 1 /\ Sample = None)
       => /\ ser_out' = ser_out /\ csv_rows' = csv_rows
          /\ pid'.integral = pid.integral
          /\ pid'.last_error = pid.last_error
          /\ pid'.last_time = pid.last_time
          /\ outlier_prev' = outlier_prev
          /\ pc' = "active" /\ exit_by' = "none"]_vars

\* The tick that has just run was an Active tick whose read returned None,
\* after the PID had already run once
C8_Witness ==
    /\ ~HasSampler(variant) /\ pc = "active" /\ tick = nacq /\ nacq >= 1
    /\ nacq <= Len(acq) /\ Acq(nacq) = None
    /\ pid.last_time # None

\* --------------------------------------------------------------------- C9
\* C9 as stated: every control-loop tick writes a duty value to the
\* actuator.
C9_EveryTickWrites ==
    [][(tick' = tick + 1) => (Len(ser_out') = Len(ser_out) + 1)]_vars

\* C9 amended: in the scripts with a Sampler thread (manual, threaded) every
\* control-loop tick writes a duty value, whether or not the Sampler has
\* published since the previous tick; in the synchronous scripts every tick
\* writes except an Active tick whose read returned no sample.
C9_TickWrites ==
    /\ [](HasSampler(variant) /\ pc = "active" => latest.temp # None)
    /\ [][(tick' = tick + 1)
          => IF pc = "active" /\ Sample = None
             THEN ser_out' = ser_out /\ ~HasSampler(variant)
             ELSE /\ Len(ser_out') = Len(ser_out) + 1
                  /\ Last(ser_out') \in 0..255]_vars

\* Two ticks of a script with a Sampler have written while the Sampler has
\* not yet published anything
C9_Witness ==
    /\ HasSampler(variant) /\ tick >= 2 /\ nacq = 0 /\ latest.temp = None
    /\ Len(ser_out) >= tick

\* -------------------------------------------------------------------- C10
\* C10: OutlierFilter.update(value) with a previous value: if
\* |value - previous| <= max_delta it returns value and stores it; otherwise
\* it returns previous and leaves the stored previous unchanged.  With no
\* previous value it returns value and stores it.
C10_FilterUpdate ==
    [][f_in' # None
       => LET v == Val(f_in')
          IN  IF outlier_prev = None
              THEN f_out' = Some(v) /\ outlier_prev' = Some(v)
              ELSE IF Abs(v - Val(outlier_prev)) <= FilterMaxDelta(variant)
              THEN f_out' = Some(v) /\ outlier_prev' = Some(v)
              ELSE f_out' = outlier_prev /\ outlier_prev' = outlier_prev]_vars

\* update has just rejected a value
C10_Witness ==
    /\ f_in # None /\ outlier_prev # None
    /\ f_out = outlier_prev /\ f_out # f_in
    /\ Abs(Val(f_in) - Val(outlier_prev)) > FilterMaxDelta(variant)

\* -------------------------------------------------------------------- C11
\* C11: after the filter has rejected a value, a later input still more
\* than max_delta away from the stored previous is rejected as well, however
\* often it is repeated: the baseline never moves on a rejected sample, and
\* it moves only on an input within max_delta of it.
C11_SustainedJump ==
    [][(outlier_prev # None /\ f_in' # None)
       => LET far == Abs(Val(f_in') - Val(outlier_prev))
                        > FilterMaxDelta(variant)
          IN  /\ (f_in # None /\ f_out # f_in /\ far)
                    => (f_out' = outlier_prev /\ outlier_prev' = outlier_prev)
              /\ (outlier_prev' # outlier_prev) => ~far]_vars

\* The jump from 20 to 300 has just been rejected, the baseline is still 20
C11_Witness ==
    /\ outlier_prev = Some(Deg(20)) /\ f_in = Some(Deg(300))
    /\ f_out = Some(Deg(20))

\* -------------------------------------------------------------------- C12
\* C12: for every setpoint, measurement and prior PID state the value
\* returned by PID.update lies within [output_min, output_max], also for
\* very large positive or negative errors and accumulated integral.
C12_OutputBounded ==
    f_out # None => /\ Val(f_out).out >= OutputLimits.lo
                    /\ Val(f_out).out <= OutputLimits.hi
                    /\ pwm = Val(f_out).out

\* An update on a measurement 800 or more degrees above the setpoint, with
\* a negative integral behind it, has returned the lower bound
C12_Witness ==
    /\ f_out # None /\ Val(f_in).pv = Deg(1000)
    /\ pid.integral < 0 /\ Val(f_out).e <= 0 - Deg(750)
    /\ Val(f_out).out = OutputLimits.lo

\* -------------------------------------------------------------------- C13
\* C13: a PID.update call whose dt is 0 (first call, or same timestamp as
\* the previous call) uses a derivative of 0 and leaves the integral
\* unchanged.
C13_ZeroDt ==
    [][(tick' = tick + 1
          /\ (pid.last_time = None \/ Some(clock') = pid.last_time))
       => (Val(f_out').d = 0 /\ pid'.integral = pid.integral)]_vars

\* A second or later update at the timestamp of the one before, with a
\* derivative gain, on an integral that is not zero
C13_Witness ==
    /\ tick >= 2 /\ f_in # None /\ Val(f_in).elapsed = 0
    /\ Val(f_in).kd # 0 /\ pid.integral # 0
    /\ Val(f_out).e # 0 /\ Val(f_out).d = 0

\* -------------------------------------------------------------------- C14
\* C14: every PID.update call adds error*dt to the integral, also when the
\* output of that call is clamped: the integral is the sum of error_i*dt_i
\* over all calls (it starts at 0), with no anti-windup limit.
C14_IntegralSum ==
    /\ [](tick = 0 => pid.integral = 0)
    /\ [][(tick' = tick + 1)
          => LET e == pid.setpoint - Val(f_in').pv
                 dt == IF pid.last_time = None THEN 0
                       ELSE clock' - Val(pid.last_time)
             IN  pid'.integral = pid.integral + e * dt]_vars

\* The output sits at its upper bound and the integral has grown past
\* 1000 degree-seconds
C14_Witness ==
    /\ f_out # None /\ Val(f_out).out = OutputLimits.hi
    /\ Val(f_in).elapsed = 1 /\ pid.integral > Deg(1000)

\* -------------------------------------------------------------------- C15
\* C15: changing the setpoint changes only the setpoint - integral, last
\* error and last update time stay as they were - and the new setpoint is
\* the one used for the error of the next PID.update call.
C15_SetpointOnly ==
    [][/\ (pid'.setpoint # pid.setpoint)
            => /\ pid'.integral = pid.integral
               /\ pid'.last_error = pid.last_error
               /\ pid'.last_time = pid.last_time
       /\ (pc = "active" /\ tick' = tick + 1 /\ Sample # None)
            => /\ pid'.setpoint = pid.setpoint
               /\ pid'.last_error =
                     pid.setpoint - (IF HasFilter(variant)
                                     THEN Val(outlier_prev') ELSE Val(Sample))
      ]_vars

\* The setpoint has been changed to 250.004 between two updates, and the
\* update that followed took its error from it
C15_Witness ==
    /\ pc = "active" /\ HasFilter(variant)
    /\ pid.setpoint = Deg(250) + 4 /\ pid.setpoint # InitialSetpoint(variant)
    /\ pid.last_time # None /\ pid.integral # 0
    /\ pid.last_error = pid.setpoint - Val(outlier_prev)

\* -------------------------------------------------------------------- C16
\* Rows whose (filtered) temperature has reached the threshold
AtThreshold == {i \in 1..Len(csv_rows) : LogTemp(i) >= Deg(THRESHOLD_C)}

\* Tick k has just run and each tick so far saw the next measurement
CrossAt(k) ==
    /\ tick = k /\ Len(csv_rows) = k
    /\ [i \in 1..k |-> LogTemp(i)] = [i \in 1..k |-> Val(CrossAtSeven[i])]

\* C16: the threshold crossing is recorded exactly once, at the first tick
\* whose filtered measurement reaches the threshold; later ticks neither
\* record it again nor change the recorded time, even when the measurement
\* oscillates around the threshold (300.0 reached at tick 7, then 295 and
\* 305: one event, at tick 7).
C16_CrossingOnce ==
    /\ (crossing_time_rel = None) = (AtThreshold = {})
    /\ crossing_time_rel # None
          => \E i \in AtThreshold :
                /\ \A j \in AtThreshold : i <= j
                /\ Val(crossing_time_rel) = csv_rows[i].t
    /\ \A k \in 1..Len(CrossAtSeven) :
          CrossAt(k) => crossing_time_rel = (IF k >= 7 THEN Some(7) ELSE None)

\* The whole sequence has been processed, one measurement per tick: the
\* last value, 305, is above the threshold again
C16_Witness ==
    /\ CrossAt(Len(CrossAtSeven)) /\ crossing_time_rel = Some(7)
    /\ LogTemp(8) < Deg(THRESHOLD_C) /\ LogTemp(9) > Deg(THRESHOLD_C)

\* -------------------------------------------------------------------- C17
\* C17: a failed acquisition in the Sampler (the source returns nothing or
\* raises) never ends the Sampler loop and never changes the shared slot:
\* the slot keeps its content and the Sampler goes on to its next cycle.
C17_FailedAcquisition ==
    [][(spc = "reading" /\ spc' # "reading" /\ Acq(nacq + 1) = None)
       => (latest' = latest /\ spc' = "wait")]_vars

\* The second acquisition failed with 150 in the slot; the Sampler went on
\* and has published the third
C17_Witness ==
    /\ HasSampler(variant) /\ acq = ShortGap /\ nacq = 3
    /\ Acq(2) = None /\ latest.temp = Acq(3) /\ spc = "wait"

\* -------------------------------------------------------------------- C18
\* C18: under every interleaving of the Sampler and the Control Loop a read
\* of the slot never finds a half-written pair: the temperature and the
\* timestamp the slot holds at the moment of a read belong to the same
\* publish.  (Between the Sampler's two stores - spc = "stamp" - the slot
\* holds the new temperature with the timestamp of the publish before.)
C18_NoTornRead ==
    [][(HasSampler(variant) /\ tick' = tick + 1) => spc # "stamp"]_vars

\* -------------------------------------------------------------------- C19
\* The value of the most recent successful acquisition among the first k
RECURSIVE LastPublished(_)
LastPublished(k) ==
    IF k = 0 THEN None
    ELSE IF acq[k] # None THEN acq[k] ELSE LastPublished(k - 1)

\* C19: a control-loop read of the slot returns the temperature of the
\* Sampler's most recent publish, or absent if nothing has been published;
\* a sample overwritten before being read is never delivered later.
C19_LatestWins ==
    /\ [](HasSampler(variant) => latest.temp = LastPublished(nacq))
    /\ [][(variant = "threaded" /\ pc = "preheat" /\ tick' = tick + 1
             /\ exit_by' = "none")
          => IF LastPublished(nacq) = None THEN csv_rows' = csv_rows
             ELSE /\ Len(csv_rows') = Len(csv_rows) + 1
                  /\ Last(csv_rows').temp = LastPublished(nacq)]_vars

\* The first tick ran after the second publish: 20 was overwritten by 150
\* and never reached the loop
C19_Witness ==
    /\ variant = "threaded" /\ acq = ShortRamp /\ nacq >= 2
    /\ Len(csv_rows) >= 2
    /\ \A i \in 1..Len(csv_rows) : LogTemp(i) # Val(ShortRamp[1])

\* -------------------------------------------------------------------- C20
\* C20: once the stop signal is set the Sampler eventually leaves its loop
\* (as long as the process lives): its wait ends without a further period,
\* and after the loop test has seen the signal no acquisition is started.
C20_StopEndsSampler ==
    /\ [][(stop_evt /\ spc \in {"wait", "exited"})
          => (spc' \in {"wait", "exited"} /\ nacq' = nacq
              /\ latest' = latest)]_vars
    /\ [][(spc = "exited") => (spc' = "exited")]_vars
    /\ stop_evt ~> (spc = "exited" \/ Ended)

\* The stop signal is set and the Sampler, having acquired at least once,
\* has left its loop while the main thread is still shutting down
C20_Witness ==
    /\ stop_evt /\ spc = "exited" /\ ~Ended /\ nacq >= 1

\* -------------------------------------------------------------------- C21
\* C21: in the bounded script the Active phase ends and Shutdown is reached
\* once PID_DURATION has elapsed since Active began, with or without
\* samples: after that moment no further iteration runs, and from Active
\* the run always gets to Shutdown.
DurationElapsed ==
    variant = "bounded" /\ pc = "active"
        /\ clock - Val(start_pid) >= PID_DURATION

C21_DurationEnds ==
    /\ [][DurationElapsed =>
            (tick' = tick /\ ser_out' = ser_out /\ csv_rows' = csv_rows
             /\ pc' \in {"active", "sd_zero"})]_vars
    /\ (variant = "bounded" /\ pc = "active")
          ~> (Phase \in {"Shutdown", "Exited"})

\* Shutdown was reached because the duration elapsed, and the PID loop has
\* not seen a single sample: every row of the log is a preheat row
C21_Witness ==
    /\ variant = "bounded" /\ Phase = "Shutdown" /\ exit_by = "duration"
    /\ Len(csv_rows) = preheat_rows
    /\ clock - Val(start_pid) >= PID_DURATION

\* -------------------------------------------------------------------- C22
\* C22: the log file a run opens never has the name of a file that is
\* already in logs/: no run overwrites the log of an earlier run.
C22_FreshLogName == \A i \in 1..Len(runs) : ~runs[i].existed

\* -------------------------------------------------------------------- C23
\* C23: every value handed to the actuator and every pwm value of a log row
\* is an integer in 0..255, in every phase, whatever the operator submits
\* and whatever the sensor yields.
C23_DutyRange ==
    /\ \A i \in 1..Len(ser_out) : ser_out[i] \in 0..255
    /\ \A i \in 1..Len(csv_rows) : csv_rows[i].pwm \in 0..255

\* The operator of the manual script has submitted a value above 255 (or
\* below 0) and the loop has written and logged the clamped duty since
C23_Witness ==
    /\ variant = "manual" /\ submits >= 1 /\ pwm \in {0, 255}
    /\ \E i \in 1..Len(csv_rows) :
          /\ Val(csv_rows[i].temp) = Deg(305)
          /\ csv_rows[i].pwm = 255
          /\ Last(ser_out) = 255

\* -------------------------------------------------------------------- C24
\* The setpoint the rows of the running script are written against
CurrentSetpoint == IF variant = "bounded" THEN Deg(SETPOINT) ELSE pid.setpoint

\* A preheat iteration that has a sample and whose actuator write succeeds
\* appends exactly one row, with the preheat duty, the measurement and the
\* error (current setpoint - measurement)
PreheatRowLogged ==
    [][(pc = "preheat" /\ tick' = tick + 1 /\ Sample # None
            /\ exit_by' # "io")
        => /\ Len(csv_rows') = Len(csv_rows) + 1
           /\ SubSeq(csv_rows', 1, Len(csv_rows)) = csv_rows
           /\ Last(csv_rows').pwm = PWM_PREHEAT
           /\ Last(csv_rows').temp = Sample
           /\ Last(csv_rows').err = Some(CurrentSetpoint - Val(Sample))]_vars

\* error_c - (setpoint_c - temp_c) of row i, for a row that has the three
RowErrorGap(i) ==
    Val(csv_rows[i].err)
        - (Val(csv_rows[i].setpoint) - Val(csv_rows[i].temp))

InputGrays == {Val(cal_in).bar[k] : k \in 1..Len(Val(cal_in).bar)}

\* C25: a calibration input whose samples all have the same intensity makes
\* the calibration fail with the insufficient-gradient error; no table is
\* returned and no artifact is written.
C25_FlatFails ==
    (cal_in # None /\ Cardinality(InputGrays) = 1)
        => /\ cal_pc \in {"build", "failed"}
           /\ lut = None
           /\ artifacts = {}
           /\ printed = << >>

\* The build has run on a flat colorbar of several pixels and main has ended
C25_Witness ==
    /\ cal_in # None /\ cal_pc = "failed"
    /\ Cardinality(InputGrays) = 1
    /\ Len(Val(cal_in).bar) = MaxBar

\* -------------------------------------------------------------------- C26
\* The intensities the build works on, after _average_along_thin_axis
ObservedLine ==
    average_along_thin_axis(Val(cal_in).bar, Val(cal_in).vertical,
                            Val(cal_in).tie)
ObservedGrays == {ObservedLine[k] : k \in 1..Len(ObservedLine)}

\* The build has been attempted
Built == cal_pc \in {"failed", "save", "validate", "done"}

\* C26 (as stated): the calibration is rejected exactly when fewer than 2
\* distinct intensities were observed; with 2 or more a table is built.
C26_TwoDistinct ==
    Built => ((cal_pc = "failed") <=> (Cardinality(ObservedGrays) < 2))

\* C26 (amended): the calibration is rejected exactly when the observed
\* intensities span fewer than 30 gray levels, which includes every input
\* with fewer than 2 distinct intensities; otherwise a table of 256 entries
\* is built.
C26_ThirtyLevels ==
    Built =>
        /\ (cal_pc = "failed")
              <=> (MaxOf(ObservedGrays) - MinOf(ObservedGrays) < 30)
        /\ Cardinality(ObservedGrays) < 2 => cal_pc = "failed"
        /\ cal_pc = "failed" => lut = None
        /\ cal_pc # "failed" => (lut # None /\ DOMAIN Val(lut) = 0..255)

\* A colorbar with exactly two distinct intensities, 30 gray levels apart,
\* has given a table
C26_Witness ==
    /\ cal_pc = "save" /\ lut # None
    /\ MaxOf(ObservedGrays) - MinOf(ObservedGrays) = 30
    /\ Cardinality(ObservedGrays) = 2

\* -------------------------------------------------------------------- C27
\* The fraction r is within a hundredth of the whole number t
Near(r, t) == 100 * Abs(r.n - t * r.d) <= r.d

\* The round-trip scenario: the linear colorbar, hot end at the start,
\* T_min = 100, T_max = 300
LinearScenario ==
    /\ cal_in # None
    /\ Val(cal_in).bar = LinearBar
    /\ Val(cal_in).hot_at_start
    /\ Val(cal_in).T_min = 100 /\ Val(cal_in).T_max = 300

\* C27: the table built from the linear colorbar with the hot end at the
\* start, T_min = 100 and T_max = 300 has temps[0] = 300.0 and
\* temps[255] = 100.0 within rounding tolerance and is non-increasing over
\* all 255 adjacent steps.
C27_LinearRoundTrip ==
    (LinearScenario /\ Built)
        => /\ lut # None
           /\ Near(Val(lut)[0], 300)
           /\ Near(Val(lut)[255], 100)
           /\ \A i \in 0..254 : ~RatLess(Val(lut)[i], Val(lut)[i + 1])

\* -------------------------------------------------------------------- C28
\* Entry i of the table the build gives for the same input with the other
\* end hot: the averaged line and its gradient test do not read
\* hot_at_start, so the positions are the same and only the conversion of
\* position to temperature changes
OtherEndEntry(i, line) ==
    TempOf(Interp(i, line), Val(cal_in).T_min, Val(cal_in).T_max,
           ~Val(cal_in).hot_at_start)

\* C28: for each of the 256 intensities the table entry is
\* T_max - pos*(T_max - T_min) when the hot end is the start and
\* T_min + pos*(T_max - T_min) when it is the end, pos being the position
\* assigned to the intensity; the two tables built from one input sum to
\* T_min + T_max at every index.
C28_PositionToTemp ==
    lut # None =>
        LET in == Val(cal_in)
            span == in.T_max - in.T_min
            line == ObservedLine
        IN  \A i \in 0..255 :
                LET pos == Interp(i, line)
                    t == Val(lut)[i]
                    o == OtherEndEntry(i, line)
                IN  /\ t.d > 0
                    /\ IF in.hot_at_start
                       THEN t.n * pos.d = (in.T_max * pos.d - pos.n * span) * t.d
                       ELSE t.n * pos.d = (in.T_min * pos.d + pos.n * span) * t.d
                    /\ t.n * o.d + o.n * t.d = (in.T_min + in.T_max) * t.d * o.d

\* A table has been built with the hot end at the end, and its entry for
\* intensity 115 lies strictly between T_min and T_max
C28_Witness ==
    /\ lut # None /\ cal_pc = "done"
    /\ ~Val(cal_in).hot_at_start
    /\ RatLess(Rat(Val(cal_in).T_min, 1), Val(lut)[115])
    /\ RatLess(Val(lut)[115], Rat(Val(cal_in).T_max, 1))

\* -------------------------------------------------------------------- C29
\* The median of the positions at which intensity v was observed
MedianPosition(line, v) ==
    Rat(Median2(PixelsOf(line, v)), 2 * (Len(line) - 1))

\* The temperature the built table must hold for a position
EntryIs(i, pos) ==
    RatEq(Val(lut)[i],
          TempOf(pos, Val(cal_in).T_min, Val(cal_in).T_max,
                 Val(cal_in).hot_at_start))

\* Intensity i lies strictly between the adjacent observed intensities a
\* and b, and its entry is on the straight line through their medians
FilledBetween(i, a, b, line, obs) ==
    /\ a < i /\ i < b
    /\ \A o \in obs : o <= a \/ o >= b
    /\ LET fa == MedianPosition(line, a)
           fb == MedianPosition(line, b)
       IN  EntryIs(i, Rat(fa.n * (b - a) + (fb.n - fa.n) * (i - a),
                          fa.d * (b - a)))

\* C29 as stated: the position of an observed intensity is the median of
\* the positions at which it was observed; every intensity never observed
\* has an observed intensity below and one above, and its position is the
\* linear interpolation over the intensity index between the nearest of
\* each.
C29_NeighbourFill ==
    lut # None =>
        LET line == ObservedLine
            obs == {line[k] : k \in 1..Len(line)}
        IN  \A i \in 0..(LEVELS - 1) :
                IF i \in obs THEN EntryIs(i, MedianPosition(line, i))
                ELSE \E a \in obs, b \in obs : FilledBetween(i, a, b, line, obs)

\* C29 amended: as above for observed intensities and for unobserved ones
\* inside the observed range; an unobserved intensity below the smallest
\* observed one takes the position of the smallest, and one above the
\* largest observed one takes the position of the largest.
C29_MedianAndFill ==
    lut # None =>
        LET line == ObservedLine
            obs == {line[k] : k \in 1..Len(line)}
        IN  \A i \in 0..(LEVELS - 1) :
                IF i \in obs THEN EntryIs(i, MedianPosition(line, i))
                ELSE IF \A o \in obs : o > i
                THEN EntryIs(i, MedianPosition(line, MinOf(obs)))
                ELSE IF \A o \in obs : o < i
                THEN EntryIs(i, MedianPosition(line, MaxOf(obs)))
                ELSE \E a \in obs, b \in obs : FilledBetween(i, a, b, line, obs)

\* A table has been built from a line on which one intensity was observed
\* at several pixels whose median is not the first of them, with
\* unobserved intensities inside and outside the observed range
C29_Witness ==
    /\ lut # None /\ cal_pc = "done"
    /\ \E v \in ObservedGrays :
           /\ Cardinality(PixelsOf(ObservedLine, v)) >= 2
           /\ Median2(PixelsOf(ObservedLine, v))
                  # 2 * MinOf(PixelsOf(ObservedLine, v))
    /\ \E i \in 0..(LEVELS - 1) :
           /\ i \notin ObservedGrays
           /\ \E a \in ObservedGrays, b \in ObservedGrays : a < i /\ i < b
    /\ \E i \in 0..(LEVELS - 1) : \A o \in ObservedGrays : o > i

\* -------------------------------------------------------------------- C30
\* The count of monotonicity violations of the built table
Violations == BadCount(Val(lut), Val(cal_in).hot_at_start)

\* The lines printed so far that are warnings
WarningLines == {k \in 1..Len(printed) : printed[k].line = "warning"}

\* The validation line, carrying the count, has been printed
CountReported ==
    \E k \in 1..Len(printed) :
        printed[k].line = "validation" /\ printed[k].count = Some(Violations)

\* C30 as stated: a calibration that built a table with a nonzero count of
\* violations is not aborted: once it has finished, the artifact is
\* persisted, a warning has been emitted and the violation count has been
\* printed.
C30_WarnsOnAnyCount ==
    (cal_pc = "done" /\ Violations > 0) =>
        /\ artifacts # {}
        /\ WarningLines # {}
        /\ CountReported

\* C30 amended: every calibration that built a table finishes with the
\* artifact persisted and the violation count printed, whatever the count;
\* a warning line is printed exactly when the count exceeds 20.
C30_WarnsAboveTwenty ==
    /\ cal_pc \in {"validate", "done"} => (lut # None /\ artifacts # {})
    /\ cal_pc = "done" =>
           /\ CountReported
           /\ (WarningLines # {}) <=> (Violations > 20)

\* A calibration has finished with the artifact saved, a count of
\* violations between 1 and 20 printed, and no warning
C30_Witness ==
    /\ cal_pc = "done" /\ artifacts # {}
    /\ Violations \in 1..20
    /\ CountReported
    /\ WarningLines = {}

\* -------------------------------------------------------------------- C31
\* The longest time one control-loop iteration takes at the pace of the run
LongestTick == IF pace = "stall" THEN PID_DURATION ELSE 1

\* How long ago row i was appended
RowAge(i) == (clock - Clock0) - csv_rows[i].t

\* C31: while the control loop runs no appended row stays unflushed for
\* more than one second plus one tick, and a run that has gone through
\* Shutdown has flushed every row.
C31_FlushWithinPeriod ==
    /\ InLoop => \A i \in (csv_flushed + 1)..Len(csv_rows) :
                    RowAge(i) <= FLUSH_PERIOD + LongestTick
    /\ pc = "done" => csv_flushed = Len(csv_rows)

\* -------------------------------------------------------------------- C32
\* The place of a phase in the order Preheat, Active (or the manual loop),
\* Shutdown, exited
PhaseRank ==
    CASE Phase = "Preheat" -> 1
      [] Phase \in {"Active", "Manual"} -> 2
      [] Phase = "Shutdown" -> 3
      [] OTHER -> 4

\* C32: the phase only moves forward, Preheat then Active then Shutdown: no
\* step takes an Active run back to Preheat, whatever the measurement; the
\* only value Shutdown writes to the actuator is its zero-duty command, and
\* after it nothing more is written.
C32_PhaseForward ==
    [][/\ PhaseRank' >= PhaseRank
       /\ pc = "sd_zero" => ser_out' \in {ser_out, Append(ser_out, 0)}
       /\ (PhaseRank >= 3 /\ pc # "sd_zero") => ser_out' = ser_out]_vars

\* A run that stayed Active on a measurement below the preheat target went
\* through Shutdown and ended, the zero-duty command being its last write
C32_Witness ==
    /\ pc = "done" /\ finished = 1 /\ ZeroIssued
    /\ \E i \in (preheat_rows + 1)..Len(csv_rows) :
           LogTemp(i) < PREHEAT_TARGET(variant)

\* -------------------------------------------------------------------- C33
\* What the control loop owns: the actuator, the log, the PID and filter
\* state and the duty
loopOwned == << ser_out, ser_open, csv_rows, csv_flushed, csv_open,
                last_flush, pid, outlier_prev, pwm >>

\* C33: only the Sampler thread writes the latest-sample slot, and a step
\* of the Sampler thread leaves the actuator, the log, the PID state and
\* the filter state as they are: these change only in steps of the Control
\* Loop thread.
C33_Ownership ==
    [][/\ latest' # latest => spc' # spc
       /\ spc' # spc => loopOwned' = loopOwned
       /\ loopOwned' # loopOwned => (spc' = spc /\ latest' = latest)]_vars

\* Both threads have been at work: the Sampler has published a sample and
\* the Control Loop has run the PID on it, written the duty and logged it
C33_Witness ==
    /\ variant = "threaded" /\ pc = "active"
    /\ latest.temp # None /\ latest.ts > 0
    /\ pid.last_time # None
    /\ Len(csv_rows) > preheat_rows

\* -------------------------------------------------------------------- C34
\* A step is a completed Active tick of a script with a Sampler thread
StaleTickStep ==
    /\ HasSampler(variant) /\ pc = "active" /\ pc' = "active"
    /\ tick' = tick + 1

\* C34: in the scripts with a Sampler thread the slot is never cleared, and
\* once it holds a sample every completed Active tick runs the filter and
\* the PID on the sample in the slot and appends a log row of it, whether
\* or not the Sampler has published since the previous tick.
C34_StaleSampleUsed ==
    [][/\ (HasSampler(variant) /\ latest.temp # None) => latest'.temp # None
       /\ (StaleTickStep /\ latest.temp # None) =>
             LET tf == OutlierFilterUpdate(outlier_prev,
                                           FilterMaxDelta(variant),
                                           Val(latest.temp)).ret
             IN  /\ outlier_prev' = Some(tf)
                 /\ pid'.last_time = Some(clock')
                 /\ pid'.last_error = pid.setpoint - tf
                 /\ pid'.integral
                       = pid.integral + (pid.setpoint - tf) * PidDt(pid, clock')
                 /\ Len(csv_rows') = Len(csv_rows) + 1
                 /\ Last(csv_rows').temp = Some(tf)
                 /\ Last(ser_out') = Last(csv_rows').pwm]_vars

\* The Sampler has made one acquisition only, and the Control Loop has
\* logged that reading in two Active ticks and integrated it
C34_Witness ==
    /\ variant = "threaded" /\ pc = "active" /\ nacq = 1
    /\ Len(csv_rows) >= preheat_rows + 2
    /\ LogTemp(Len(csv_rows)) = LogTemp(Len(csv_rows) - 1)
    /\ pid.integral # 0

\* -------------------------------------------------------------------- C35
\* The sample of the coming preheat tick reaches the preheat target
SeesTarget == Sample # None /\ Val(Sample) >= PREHEAT_TARGET(variant)

C36_ShutdownCompletes ==
    (pc = "sd_zero") ~>
        (pc = "done" /\ ZeroIssued /\ ~ser_open /\ LogClosed /\ joined # "no")

\* Shutdown has completed after a join that timed out, the Sampler being
\* still in its acquisition
C36_Witness ==
    /\ pc = "done" /\ joined = "timeout" /\ spc = "reading"
    /\ ZeroIssued /\ ~ser_open /\ LogClosed

\* -------------------------------------------------------------------- C37
\* The PID has never been updated and the filter holds no value
Untouched(p, prev) ==
    /\ p.integral = 0 /\ p.last_error = 0 /\ p.last_time = None
    /\ prev = None

\* C37: no step of Preheat updates the PID or the outlier filter, so the
\* first Active tick that has a sample finds the integral 0, no last update
\* time and no previous filter value; that tick's filter accepts the sample
\* and its duty is the proportional term Kp*(setpoint - measurement),
\* clamped to 0..255 and truncated, the integral staying 0.
C37_FirstActiveTick ==
    [][/\ Phase = "Preheat" => Untouched(pid', outlier_prev')
       /\ (pc = "active" /\ pid.last_time = None) => Untouched(pid, outlier_prev)
       /\ (pc = "active" /\ tick' = tick + 1 /\ Sample # None
              /\ pid.last_time = None) =>
             LET e == pid.setpoint - Val(Sample)
                 duty == TruncInt100(PidClamp(Kp(variant) * e))
             IN  /\ HasFilter(variant) => outlier_prev' = Sample
                 /\ pid'.last_error = e
                 /\ pid'.integral = 0
                 /\ pwm' = duty
                 /\ ser_out' = Append(ser_out, duty)]_vars

\* The first Active tick with a sample has just run, on a measurement more
\* than max_delta below the last Preheat sample, and its duty lies strictly
\* between the limits
C37_Witness ==
    /\ pc = "active" /\ HasFilter(variant)
    /\ Len(csv_rows) = preheat_rows + 1 /\ preheat_rows >= 1
    /\ LogTemp(preheat_rows) - LogTemp(Len(csv_rows)) > FilterMaxDelta(variant)
    /\ pid.integral = 0 /\ pid.last_time # None
    /\ pwm > 0 /\ pwm < 255 /\ Last(ser_out) = pwm

\* -------------------------------------------------------------------- C38
\* C38: after every OutlierFilter.update call the value returned is the
\* value the filter stores as its previous value, and the values returned
\* by two successive calls differ by no more than max_delta.
C38_ReturnIsPrev ==
    [][f_out' # None =>
          /\ outlier_prev' = f_out'
          /\ f_out # None =>
                Abs(Val(f_out') - Val(f_out)) <= FilterMaxDelta(variant)]_vars

\* The filter has just rejected its argument and returned the value it
\* holds
C38_Witness ==
    /\ f_in # None /\ f_out # None /\ f_in # f_out
    /\ outlier_prev = f_out

\* -------------------------------------------------------------------- C39
\* The number a typed text stands for, in 1/Scale units; <<>> for a text
\* that is not a number
NumberTyped(text) ==
    CASE text = << "3", "0", "0" >> -> Some(300 * Scale)
      [] text = << "-", "5", ".", "5" >> -> Some(0 - (5 * Scale + Scale \div 2))
      [] text = << "1", "2", "8", ".", "9" >>
            -> Some(128 * Scale + 9 * (Scale \div 10))
      [] text = << "2", "5", "0", ".", "0", "0", "4" >> -> Some(250 * Scale + 4)
      [] OTHER -> None

\* The whole number of 0..255 nearest to the integer part of x
IntoByte(x) ==
    LET whole == IF x >= 0 THEN x \div Scale ELSE 0 - ((0 - x) \div Scale)
    IN  IF whole < 0 THEN 0 ELSE IF whole > 255 THEN 255 ELSE whole

====
